---- MODULE Spec2Model ----
(***************************************************************************)
(* Model of the EEEMCal analysis scripts.                                  *)
(*                                                                         *)
(*  - 009_IntInjection_2V5.py : the internal-injection DAQ script, as a    *)
(*    sequential state machine (specification Spec).                       *)
(*  - read_binned_hist_csv / make_th1_from_centers_counts : the CSV to     *)
(*    histogram helpers of the LED analysis (specification SpecCsv).       *)
(*  - parse_voltage : the file-name parser of the LED analysis             *)
(*    (specification SpecVolt).                                            *)
(***************************************************************************)
EXTENDS Integers, Sequences, FiniteSets, TLC

VARIABLES
    \* ---- 009_IntInjection_2V5.py ----
    pc,                    \* position in the script
    i2c_arg,               \* args.i2c[0], or NoneArg when -i is absent
    files,                 \* the files the script has looked at so far
    input_i2c_json_names,
    input_pede_jsons,
    input_pede_phase,
    phase_setting,
    phase_msg,             \* which phase-selection message was logged
    scan_config,
    asic_i,                \* _asic of the running loop
    key_i,                 \* index of _reg_key in the register set-up loop
    phase_i,               \* index of _phase in phase_settings
    chn_i,                 \* index of the channel in the output loop
    asic_config,           \* _asic_config, the variable left by the set-up loop
    lastOk,                \* result of the send_check_* call of the last step
                           \* (TRUE when the step made no call)
    warned,                \* the last step logged a warning
    phase_scan,            \* length of phase_scan_*[chn] of a scanned channel
    channel_in_plot,       \* _channel_in_plot
    gen_params,            \* arguments of send_check_DAQ_gen_params, once sent
    trace,                 \* external effects, in order
    sockets,               \* worker sockets are open
    registered,            \* ports registered with the pool
    exit_status,           \* -1 while running, else the process exit status
    exc,                   \* uncaught exception, "" when none
    inj_list,              \* samples per channel returned by the last Inj_2V5
    \* ---- read_binned_hist_csv / make_th1_from_centers_counts ----
    cpc, csv_rows, csv_x, csv_y, hist,
    \* ---- parse_voltage ----
    vpc, csv_file, v_result,
    \* ---- compute_resolution_points and its area / amplitude variants ----
    rpc,                   \* position in the function
    variant,               \* which of the three functions runs
    listing,               \* os.listdir(data_dir)
    csv_files,
    file_i,                \* index of csv_file in csv_files
    voltages, resolutions, v_errors, res_errors,
    seen,                  \* what the loop found in each file, in loop order
    loc,                   \* locals of the last loop iteration that fitted
    res_ret,               \* the four lists returned
    \* ---- plot_hist_area.py / plot_all_amplitude_hists.py, one CSV file ----
    ipc, script, inl,
    \* ---- find_center.py ----
    fpc,                   \* position in the script
    scan,                  \* "H" or "V": the scan loop that is running
    root_file,             \* what analyze_run finds at beam/RunNNN.root
    run_calls,             \* the calls of analyze_run, in order
    peak_H, peak_V,
    saved,                 \* PNG files written
    fexc,                  \* uncaught exception, "" when none
    analyze_ret            \* what the last analyze_run returned

daqVars == <<pc, i2c_arg, files, input_i2c_json_names, input_pede_jsons,
             input_pede_phase, phase_setting, phase_msg, scan_config, asic_i,
             key_i, phase_i, chn_i, asic_config, lastOk, warned, phase_scan,
             channel_in_plot, gen_params, trace, sockets, registered,
             exit_status, exc, inj_list>>
csvVars == <<cpc, csv_rows, csv_x, csv_y, hist>>
voltVars == <<vpc, csv_file, v_result>>
resVars == <<rpc, variant, listing, csv_files, file_i, voltages, resolutions,
             v_errors, res_errors, seen, loc, res_ret>>
inlVars == <<ipc, script, inl>>
ctrVars == <<fpc, scan, root_file, run_calls, peak_H, peak_V, saved, fexc,
             analyze_ret>>
extVars == <<resVars, inlVars, ctrVars>>
vars == <<daqVars, csvVars, voltVars, extVars>>

(***************************************************************************)
(* Bounds                                                                  *)
(***************************************************************************)
MaxArgLen == 5        \* atoms in the -i argument (argument handling)
MaxScanArgLen == 4    \* atoms in the -i argument (whole script)
MaxAsicAddr == 2      \* largest "ASIC Address" found in a settings file
MaxSamples == 1       \* non-zero samples per channel returned by one Inj_2V5

(***************************************************************************)
(* Strings of the -i argument: sequences of atoms; the string is their     *)
(* concatenation.                                                          *)
(***************************************************************************)
Atoms == {"a", ".json", ","}
ArgStrings == UNION {[1..k -> Atoms] : k \in 0..MaxArgLen}
ScanArgStrings == UNION {[1..k -> Atoms] : k \in 0..MaxScanArgLen}
NoneArg == <<"None">>

input_i2c_json_name_default == <<"config/default_2024Aug_config", ".json">>

Range(s) == {s[i] : i \in DOMAIN s}

Contains(s, c) == \E i \in DOMAIN s : s[i] = c

FirstIndex(s, c) == CHOOSE i \in DOMAIN s : s[i] = c /\ \A j \in 1..(i-1) : s[j] # c

\* str.split(',')
RECURSIVE Split(_, _)
Split(s, c) ==
    IF ~Contains(s, c) THEN <<s>>
    ELSE LET i == FirstIndex(s, c)
         IN <<SubSeq(s, 1, i - 1)>> \o Split(SubSeq(s, i + 1, Len(s)), c)

\* str.endswith('.json')
EndsWithJson(s) == Len(s) > 0 /\ s[Len(s)] = ".json"

(***************************************************************************)
(* Program constants of the DAQ script                                     *)
(***************************************************************************)
total_asic == 2
i2c_retry == 50
machine_gun == 10
phase_setting_default == 12
gen_nr_cycle == 1
gen_interval_value == 1000
gen_pre_interval_value == 15
gen_fcmd_internal_injection == 45     \* 0b00101101
gen_fcmd_L1A == 75                    \* 0b01001011
phase_settings_with4 == <<0, 1, 2, 3, 4, 5, 8, 9, 10, 11, 12, 13, 14>>
phase_settings == <<0, 1, 2, 3, 5, 8, 9, 10, 11, 12, 13, 14, 15>>
scan_start_chn == 0
scan_chn_numbers_per_asic == 18
ChannelsPerAsic == 76

(***************************************************************************)
(* Settings files.  A file is either missing or a JSON document of which   *)
(* the script reads the target ASIC address, whether a PedestalCalib       *)
(* section is present and the phase_setting it carries.  The documents     *)
(* list no dead channels.                                                  *)
(***************************************************************************)
NoPhase == -1
PhaseValues == {3, 9}
Missing == [addr |-> -1, pede |-> FALSE, phase |-> NoPhase]
JsonFiles == {[addr |-> a, pede |-> p, phase |-> ph] :
                 a \in 0..MaxAsicAddr, p \in BOOLEAN, ph \in PhaseValues \cup {NoPhase}}
FileStates == {f \in JsonFiles : ~f.pede => f.phase = NoPhase} \cup {Missing}

\* "Register Settings" of a settings file, in file order: the keys the script
\* reads by name (lines 308-337), each a register family and its index
RegKeys == << <<"Top">>, <<"Channel_", "0">>, <<"CM_", "0">>, <<"CALIB_", "0">>,
              <<"Global_Analog_", "0">>, <<"Reference_Voltage_", "0">>,
              <<"Digital_Half_", "0">>, <<"Global_Analog_", "1">>,
              <<"Reference_Voltage_", "1">>, <<"Digital_Half_", "1">> >>

\* lines 377, 391, 402: `"<family>" in _reg_key`
RegKind(k) ==
    IF \E i \in DOMAIN k : k[i] \in {"Channel_", "CM_", "CALIB_"} THEN "chn"
    ELSE IF \E i \in DOMAIN k : k[i] = "Global_Analog_" THEN "global_analog"
    ELSE IF \E i \in DOMAIN k : k[i] = "Digital_Half_" THEN "digital_half"
    ELSE "none"

(***************************************************************************)
(* Events of the trace                                                     *)
(***************************************************************************)
Ev(e, kind, asic, cfg, phase, n) ==
    [ev |-> e, kind |-> kind, asic |-> asic, cfg |-> cfg, phase |-> phase, n |-> n]

I2cEv(kind, asic, cfg, phase) == Ev("i2c", kind, asic, cfg, phase, i2c_retry)

(***************************************************************************)
(* 009_IntInjection_2V5.py, lines 53-85: the -i argument                   *)
(***************************************************************************)
RECURSIVE CheckNames(_, _, _)
CheckNames(parts, i, acc) ==
    IF i > Len(parts) THEN [status |-> "ok", names |-> acc]
    ELSE IF ~EndsWithJson(parts[i]) THEN [status |-> "exit1", names |-> acc]
    ELSE CheckNames(parts, i + 1, Append(acc, parts[i]))

HandleI2cArg_atLeastTwo(arg, exists) ==
    IF arg = NoneArg THEN [status |-> "ok", names |-> <<input_i2c_json_name_default>>]
    ELSE IF Contains(arg, ",") THEN
        LET i2c_file_names == Split(arg, ",")
        IN IF Len(i2c_file_names) < 2 THEN [status |-> "exit1", names |-> <<>>]
           ELSE CheckNames(i2c_file_names, 1, <<>>)
    ELSE IF exists THEN
        IF ~EndsWithJson(arg) THEN [status |-> "exit1", names |-> <<>>]
        ELSE [status |-> "ok", names |-> <<arg>>]
    ELSE [status |-> "exit1", names |-> <<>>]

\* exists: os.path.exists(i2c_string)
HandleI2cArg(arg, exists) ==
    IF arg = NoneArg THEN [status |-> "ok", names |-> <<input_i2c_json_name_default>>]
    ELSE IF Contains(arg, ",") THEN
        LET i2c_file_names == Split(arg, ",")
        IN IF Len(i2c_file_names) # 2 THEN [status |-> "exit1", names |-> <<>>]
           ELSE CheckNames(i2c_file_names, 1, <<>>)
    ELSE IF exists THEN
        IF ~EndsWithJson(arg) THEN [status |-> "exit1", names |-> <<>>]
        ELSE [status |-> "ok", names |-> <<arg>>]
    ELSE [status |-> "exit1", names |-> <<>>]

ParseArgs ==
    /\ pc = "args"
    /\ \E f \in FileStates :
         /\ (Len(i2c_arg) = 0 => f = Missing)
         /\ LET single == i2c_arg # NoneArg /\ ~Contains(i2c_arg, ",")
                r == HandleI2cArg(i2c_arg, f # Missing)
            IN /\ (~single => f = Missing)
               /\ files' = IF single THEN (i2c_arg :> f) ELSE files
               /\ input_i2c_json_names' = r.names
               /\ IF r.status = "ok"
                    THEN pc' = "udp" /\ exit_status' = exit_status
                    ELSE pc' = "exit" /\ exit_status' = 1
    /\ warned' = FALSE
    /\ lastOk' = TRUE
    /\ UNCHANGED <<i2c_arg, input_pede_jsons, input_pede_phase, phase_setting,
                   phase_msg, scan_config, asic_i, key_i, phase_i, chn_i,
                   asic_config, phase_scan, channel_in_plot, gen_params, trace,
                   sockets, registered, exc, inj_list>>
    /\ UNCHANGED <<csvVars, voltVars, extVars>>

(***************************************************************************)
(* lines 87-165: the socket pool configuration, the -c argument, the       *)
(* common settings file and the register description file                  *)
(***************************************************************************)
ConfigArgs == {"none", "ok", "notjson", "missing"}

\* the common settings file: loads with a usable 'udp' section, cannot be
\* opened, is not JSON, or has no usable 'udp' section
CommonSettings == {"ok", "absent", "badjson", "noudp"}

\* pool: config/socket_pool_config.json can be opened (line 91);
\* i2c_settings: config/h2gcroc_1v4_r1.json can be opened (line 137)
FindUdpSettings ==
    /\ pc = "udp"
    /\ \E pool \in BOOLEAN, c \in ConfigArgs, cs \in CommonSettings,
          i2c_settings \in BOOLEAN :
         /\ (c = "ok" => cs # "absent")
         /\ IF ~pool
              THEN /\ pc' = "crash" /\ exit_status' = 1
                   /\ exc' = "FileNotFoundError"
                   /\ warned' = FALSE
              ELSE IF c \in {"notjson", "missing"}
              THEN /\ pc' = "exit" /\ exit_status' = 1
                   /\ exc' = exc
                   /\ warned' = FALSE
              ELSE IF ~i2c_settings
              THEN /\ pc' = "crash" /\ exit_status' = 1
                   /\ exc' = "FileNotFoundError"
                   /\ warned' = (cs \in {"absent", "badjson"})
              ELSE /\ pc' = "sockets" /\ exit_status' = exit_status
                   /\ exc' = exc
                   /\ warned' = (cs # "ok")
    /\ lastOk' = TRUE
    /\ UNCHANGED <<i2c_arg, files, input_i2c_json_names, input_pede_jsons,
                   input_pede_phase, phase_setting, phase_msg, scan_config,
                   asic_i, key_i, phase_i, chn_i, asic_config, phase_scan,
                   channel_in_plot, gen_params, trace, sockets, registered,
                   inj_list>>
    /\ UNCHANGED <<csvVars, voltVars, extVars>>

(***************************************************************************)
(* lines 171-184: init_worker_sockets and pool_do("register", ...)         *)
(***************************************************************************)
InitWorkerSockets ==
    /\ pc = "sockets"
    /\ \E ok \in BOOLEAN :
         IF ok
           THEN /\ sockets' = TRUE
                /\ registered' = {"data", "cmd"}
                /\ pc' = "pede"
                /\ exit_status' = exit_status
           ELSE /\ sockets' = sockets
                /\ registered' = registered
                /\ pc' = "exit"
                /\ exit_status' = 0
    /\ warned' = FALSE
    /\ lastOk' = TRUE
    /\ UNCHANGED <<i2c_arg, files, input_i2c_json_names, input_pede_jsons,
                   input_pede_phase, phase_setting, phase_msg, scan_config,
                   asic_i, key_i, phase_i, chn_i, asic_config, phase_scan,
                   channel_in_plot, gen_params, trace, exc, inj_list>>
    /\ UNCHANGED <<csvVars, voltVars, extVars>>

(***************************************************************************)
(* lines 230-267: read the pedestal calibration settings                   *)
(***************************************************************************)
\* lines 238-246 and 256-264: one loaded document whose address matched
AppendPede(st, f) ==
    LET ph == IF f.pede /\ f.phase # NoPhase
                THEN Append(st.phases, f.phase) ELSE st.phases
    IN [status |-> IF f.pede THEN "ok" ELSE "KeyError",
        jsons |-> Append(st.jsons, f), phases |-> ph]

\* lines 233-249: one file per ASIC
RECURSIVE ReadPerAsic(_, _, _, _)
ReadPerAsic(names, fs, i, st) ==
    IF i > Len(names) \/ st.status # "ok" THEN st
    ELSE LET f == fs[names[i]]
         IN IF f = Missing THEN [st EXCEPT !.status = "exit1"]
            ELSE IF f.addr = i - 1
                   THEN ReadPerAsic(names, fs, i + 1, AppendPede(st, f))
                   ELSE ReadPerAsic(names, fs, i + 1, st)

\* lines 251-264: one file for all ASICs
RECURSIVE ReadDuplicated(_, _, _, _)
ReadDuplicated(names, fs, asic, st) ==
    IF asic >= total_asic \/ st.status # "ok" THEN st
    ELSE LET f == fs[names[1]]
         IN IF f = Missing THEN [st EXCEPT !.status = "FileNotFoundError"]
            ELSE IF f.addr = asic
                   THEN ReadDuplicated(names, fs, asic + 1, AppendPede(st, f))
                   ELSE ReadDuplicated(names, fs, asic + 1, st)

ReadPedeSettings(names, fs) ==
    LET st0 == [status |-> "ok", jsons |-> <<>>, phases |-> <<>>]
    IN IF total_asic = Len(names) THEN ReadPerAsic(names, fs, 1, st0)
       ELSE IF Len(names) = 1 THEN ReadDuplicated(names, fs, 0, st0)
       ELSE [st0 EXCEPT !.status = "exit1"]

ReadPedestal ==
    /\ pc = "pede"
    /\ \E fs \in [Range(input_i2c_json_names) -> FileStates] :
         /\ \A nm \in DOMAIN fs : nm \in DOMAIN files => fs[nm] = files[nm]
         /\ files' = fs
         /\ LET r == ReadPedeSettings(input_i2c_json_names, fs)
            IN /\ input_pede_jsons' = r.jsons
               /\ input_pede_phase' = r.phases
               /\ IF r.status = "ok"
                    THEN pc' = "phase_sel" /\ exit_status' = exit_status /\ exc' = exc
                    ELSE IF r.status = "exit1"
                    THEN pc' = "exit" /\ exit_status' = 1 /\ exc' = exc
                    ELSE pc' = "crash" /\ exit_status' = 1 /\ exc' = r.status
    /\ warned' = FALSE
    /\ lastOk' = TRUE
    /\ UNCHANGED <<i2c_arg, input_i2c_json_names, phase_setting, phase_msg,
                   scan_config, asic_i, key_i, phase_i, chn_i, asic_config,
                   phase_scan, channel_in_plot, gen_params, trace, sockets,
                   registered, inj_list>>
    /\ UNCHANGED <<csvVars, voltVars, extVars>>

(***************************************************************************)
(* lines 269-275: phase selection                                          *)
(***************************************************************************)
SelectPhase_first ==
    /\ pc = "phase_sel"
    /\ LET n == Cardinality(Range(input_pede_phase))
       IN IF n >= 1
            THEN /\ phase_setting' = input_pede_phase[1]
                 /\ phase_msg' = "found"
                 /\ warned' = FALSE
            ELSE /\ phase_setting' = phase_setting
                 /\ phase_msg' = "none"
                 /\ warned' = TRUE
    /\ lastOk' = TRUE
    /\ pc' = "scan_cfg"
    /\ UNCHANGED <<i2c_arg, files, input_i2c_json_names, input_pede_jsons,
                   input_pede_phase, scan_config, asic_i, key_i, phase_i,
                   chn_i, asic_config, phase_scan, channel_in_plot, gen_params,
                   trace, sockets, registered, exit_status, exc, inj_list>>
    /\ UNCHANGED <<csvVars, voltVars, extVars>>

SelectPhase ==
    /\ pc = "phase_sel"
    /\ LET n == Cardinality(Range(input_pede_phase))
       IN IF n = 1
            THEN /\ phase_setting' = input_pede_phase[1]
                 /\ phase_msg' = "found"
                 /\ warned' = FALSE
            ELSE IF n > 1
            THEN /\ phase_setting' = phase_setting
                 /\ phase_msg' = "different"
                 /\ warned' = TRUE
            ELSE /\ phase_setting' = phase_setting
                 /\ phase_msg' = "none"
                 /\ warned' = TRUE
    /\ lastOk' = TRUE
    /\ pc' = "scan_cfg"
    /\ UNCHANGED <<i2c_arg, files, input_i2c_json_names, input_pede_jsons,
                   input_pede_phase, scan_config, asic_i, key_i, phase_i,
                   chn_i, asic_config, phase_scan, channel_in_plot, gen_params,
                   trace, sockets, registered, exit_status, exc, inj_list>>
    /\ UNCHANGED <<csvVars, voltVars, extVars>>

(***************************************************************************)
(* lines 302-371: scan_config                                              *)
(***************************************************************************)
\* lines 305-360; element 7 of the two Top register images
AsicScanConfig(json, phase) ==
    [top_reg_runLR7 |-> phase % 16, top_reg_offLR7 |-> phase % 16, config |-> json]

BuildScanConfig ==
    /\ pc = "scan_cfg"
    /\ IF Len(input_pede_jsons) < total_asic
         THEN /\ pc' = "crash"
              /\ exc' = "IndexError"
              /\ exit_status' = 1
              /\ scan_config' = [a \in 1..Len(input_pede_jsons) |->
                                   AsicScanConfig(input_pede_jsons[a], phase_setting)]
         ELSE /\ pc' = "regs"
              /\ exc' = exc
              /\ exit_status' = exit_status
              /\ scan_config' = [a \in 1..total_asic |->
                                   AsicScanConfig(input_pede_jsons[a], phase_setting)]
    /\ asic_i' = 0
    /\ key_i' = 1
    /\ warned' = FALSE
    /\ lastOk' = TRUE
    /\ UNCHANGED <<i2c_arg, files, input_i2c_json_names, input_pede_jsons,
                   input_pede_phase, phase_setting, phase_msg, phase_i, chn_i,
                   asic_config, phase_scan, channel_in_plot, gen_params, trace,
                   sockets, registered, inj_list>>
    /\ UNCHANGED <<csvVars, voltVars, extVars>>

(***************************************************************************)
(* lines 374-412: the register set-up loop, one key of one ASIC per step   *)
(***************************************************************************)
\* `if not send_check_*(...): logger.warning(...)`
Warned(ok) == ~ok

AfterCall_abort(ok, nxt) == IF ok THEN nxt ELSE "exit"

\* the statement that follows a send_check_* call: its result selects the
\* log message only
AfterCall(ok, nxt) == nxt

RegStep ==
    /\ pc = "regs"
    /\ asic_config' = asic_i
    /\ LET kind == RegKind(RegKeys[key_i])
           nxt == IF key_i < Len(RegKeys) \/ asic_i + 1 < total_asic
                    THEN "regs" ELSE "gen"
       IN IF kind # "none"
            THEN \E ok \in BOOLEAN :
                   /\ trace' = Append(trace, I2cEv(kind, asic_i, asic_i, -1))
                   /\ lastOk' = ok
                   /\ warned' = Warned(ok)
                   /\ pc' = AfterCall(ok, nxt)
            ELSE warned' = FALSE /\ lastOk' = TRUE /\ pc' = nxt /\ trace' = trace
    /\ IF key_i < Len(RegKeys)
         THEN key_i' = key_i + 1 /\ asic_i' = asic_i
         ELSE IF asic_i + 1 < total_asic
         THEN key_i' = 1 /\ asic_i' = asic_i + 1
         ELSE key_i' = key_i /\ asic_i' = asic_i
    /\ UNCHANGED <<i2c_arg, files, input_i2c_json_names, input_pede_jsons,
                   input_pede_phase, phase_setting, phase_msg, scan_config,
                   phase_i, chn_i, phase_scan, channel_in_plot, gen_params,
                   sockets, registered, exit_status, exc, inj_list>>
    /\ UNCHANGED <<csvVars, voltVars, extVars>>

(***************************************************************************)
(* lines 417-426: the generator set-up                                     *)
(***************************************************************************)
\* 1 << n
RECURSIVE Shl1(_)
Shl1(n) == IF n = 0 THEN 1 ELSE 2 * Shl1(n - 1)

DAQGenParams_noPreimp ==
    [data_coll_en |-> Shl1(total_asic) - 1,
     trig_coll_en |-> 0,
     daq_fcmd |-> gen_fcmd_L1A,
     gen_preimp_en |-> 0,
     gen_pre_interval |-> gen_pre_interval_value,
     gen_nr_of_cycle |-> gen_nr_cycle,
     gen_interval |-> gen_interval_value,
     gen_pre_fcmd |-> gen_fcmd_internal_injection,
     gen_fcmd |-> gen_fcmd_L1A,
     daq_push_fcmd |-> gen_fcmd_L1A,
     machine_gun |-> machine_gun,
     ext_trg_en |-> 0,
     ext_trg_deadtime |-> 10000]

DAQGenParams ==
    [data_coll_en |-> Shl1(total_asic) - 1,
     trig_coll_en |-> 0,
     daq_fcmd |-> gen_fcmd_L1A,
     gen_preimp_en |-> 1,
     gen_pre_interval |-> gen_pre_interval_value,
     gen_nr_of_cycle |-> gen_nr_cycle,
     gen_interval |-> gen_interval_value,
     gen_pre_fcmd |-> gen_fcmd_internal_injection,
     gen_fcmd |-> gen_fcmd_L1A,
     daq_push_fcmd |-> gen_fcmd_L1A,
     machine_gun |-> machine_gun,
     ext_trg_en |-> 0,
     ext_trg_deadtime |-> 10000]

GenSetup ==
    /\ pc = "gen"
    /\ \E ok \in BOOLEAN :
         /\ lastOk' = ok
         /\ warned' = Warned(ok)
         /\ pc' = AfterCall(ok, "phase_start")
    /\ gen_params' = Append(gen_params, DAQGenParams)
    /\ trace' = Append(trace, Ev("gen", "gen", -1, -1, -1, 0))
    /\ phase_scan' = 0
    /\ phase_i' = 1
    /\ UNCHANGED <<i2c_arg, files, input_i2c_json_names, input_pede_jsons,
                   input_pede_phase, phase_setting, phase_msg, scan_config,
                   asic_i, key_i, chn_i, asic_config, channel_in_plot, sockets,
                   registered, exit_status, exc, inj_list>>
    /\ UNCHANGED <<csvVars, voltVars, extVars>>

(***************************************************************************)
(* lines 438-488: one phase of the scan                                    *)
(***************************************************************************)
\* lines 439-442
PhaseStart ==
    /\ pc = "phase_start"
    /\ scan_config' = [a \in DOMAIN scan_config |->
                         [scan_config[a] EXCEPT
                            !.top_reg_offLR7 = phase_settings[phase_i] % 16,
                            !.top_reg_runLR7 = phase_settings[phase_i] % 16]]
    /\ asic_i' = 0
    /\ pc' = "lr_on"
    /\ warned' = FALSE
    /\ lastOk' = TRUE
    /\ UNCHANGED <<i2c_arg, files, input_i2c_json_names, input_pede_jsons,
                   input_pede_phase, phase_setting, phase_msg, key_i, phase_i,
                   chn_i, asic_config, phase_scan, channel_in_plot, gen_params,
                   trace, sockets, registered, exit_status, exc, inj_list>>
    /\ UNCHANGED <<csvVars, voltVars, extVars>>

\* lines 450-452; the data is _asic_config["top_reg_runLR"]
LrOn ==
    /\ pc = "lr_on"
    /\ \E ok \in BOOLEAN :
         /\ lastOk' = ok
         /\ warned' = Warned(ok)
         /\ pc' = AfterCall(ok, IF asic_i + 1 < total_asic THEN "lr_on" ELSE "inj")
    /\ trace' = Append(trace, I2cEv("lr_on", asic_i, asic_config,
                                    scan_config[asic_config + 1].top_reg_runLR7))
    /\ asic_i' = IF asic_i + 1 < total_asic THEN asic_i + 1 ELSE asic_i
    /\ UNCHANGED <<i2c_arg, files, input_i2c_json_names, input_pede_jsons,
                   input_pede_phase, phase_setting, phase_msg, scan_config,
                   key_i, phase_i, chn_i, asic_config, phase_scan,
                   channel_in_plot, gen_params, sockets, registered,
                   exit_status, exc, inj_list>>
    /\ UNCHANGED <<csvVars, voltVars, extVars>>

\* line 455; n: the non-zero samples Inj_2V5 returns for a scanned channel,
\* none or MaxSamples of them
Inject ==
    /\ pc = "inj"
    /\ \E n \in {0, MaxSamples} : inj_list' = n
    /\ trace' = Append(trace, Ev("inj", "inj", -1, -1, phase_settings[phase_i], 0))
    /\ asic_i' = 0
    /\ pc' = "lr_off"
    /\ warned' = FALSE
    /\ lastOk' = TRUE
    /\ UNCHANGED <<i2c_arg, files, input_i2c_json_names, input_pede_jsons,
                   input_pede_phase, phase_setting, phase_msg, scan_config,
                   key_i, phase_i, chn_i, asic_config, phase_scan,
                   channel_in_plot, gen_params, sockets, registered,
                   exit_status, exc>>
    /\ UNCHANGED <<csvVars, voltVars, extVars>>

\* lines 457-459, with the loop stopping after the first ASIC
LrOff_onlyFirstAsic ==
    /\ pc = "lr_off"
    /\ \E ok \in BOOLEAN :
         /\ lastOk' = ok
         /\ warned' = Warned(ok)
         /\ pc' = AfterCall(ok, "collect")
    /\ trace' = Append(trace, I2cEv("lr_off", asic_i, asic_i,
                                    scan_config[asic_i + 1].top_reg_offLR7))
    /\ asic_i' = asic_i
    /\ UNCHANGED <<i2c_arg, files, input_i2c_json_names, input_pede_jsons,
                   input_pede_phase, phase_setting, phase_msg, scan_config,
                   key_i, phase_i, chn_i, asic_config, phase_scan,
                   channel_in_plot, gen_params, sockets, registered,
                   exit_status, exc, inj_list>>
    /\ UNCHANGED <<csvVars, voltVars, extVars>>

\* lines 457-459; the data is scan_config[_asic]["top_reg_offLR"]
LrOff ==
    /\ pc = "lr_off"
    /\ \E ok \in BOOLEAN :
         /\ lastOk' = ok
         /\ warned' = Warned(ok)
         /\ pc' = AfterCall(ok, IF asic_i + 1 < total_asic THEN "lr_off" ELSE "collect")
    /\ trace' = Append(trace, I2cEv("lr_off", asic_i, asic_i,
                                    scan_config[asic_i + 1].top_reg_offLR7))
    /\ asic_i' = IF asic_i + 1 < total_asic THEN asic_i + 1 ELSE asic_i
    /\ UNCHANGED <<i2c_arg, files, input_i2c_json_names, input_pede_jsons,
                   input_pede_phase, phase_setting, phase_msg, scan_config,
                   key_i, phase_i, chn_i, asic_config, phase_scan,
                   channel_in_plot, gen_params, sockets, registered,
                   exit_status, exc, inj_list>>
    /\ UNCHANGED <<csvVars, voltVars, extVars>>

\* lines 461-488
Collect ==
    /\ pc = "collect"
    /\ phase_scan' = phase_scan + inj_list
    /\ IF phase_i < Len(phase_settings)
         THEN phase_i' = phase_i + 1 /\ pc' = "phase_start"
         ELSE phase_i' = phase_i /\ pc' = "output"
    /\ warned' = FALSE
    /\ lastOk' = TRUE
    /\ UNCHANGED <<i2c_arg, files, input_i2c_json_names, input_pede_jsons,
                   input_pede_phase, phase_setting, phase_msg, scan_config,
                   asic_i, key_i, chn_i, asic_config, channel_in_plot,
                   gen_params, trace, sockets, registered, exit_status, exc,
                   inj_list>>
    /\ UNCHANGED <<csvVars, voltVars, extVars>>

(***************************************************************************)
(* lines 490-594: CSV rows and PDF pages                                   *)
(***************************************************************************)
\* lines 502-571: the effects of the channel loop from channel index i on,
\* with in_plot channels on the open group page and n samples per channel
RECURSIVE ChannelLoop(_, _, _, _)
ChannelLoop(i, in_plot, n, acc) ==
    IF i >= total_asic * scan_chn_numbers_per_asic
      THEN [events |-> acc, in_plot |-> in_plot]
    ELSE LET asic == i \div scan_chn_numbers_per_asic
             chn == asic * ChannelsPerAsic + scan_start_chn
                      + (i % scan_chn_numbers_per_asic)
             rows == Ev("csv_rows", "csv", asic, -1, chn, n)
             page == Ev("pdf_page", "group", asic, -1, chn, 0)
         IN IF n = 0 THEN ChannelLoop(i + 1, in_plot, n, acc)
            ELSE IF in_plot + 1 = 8
              THEN ChannelLoop(i + 1, 0, n, acc \o <<rows, page>>)
              ELSE ChannelLoop(i + 1, in_plot + 1, n, Append(acc, rows))

\* lines 490-594: the CSV header, the rows and group pages of every scanned
\* channel, the summary page
WriteOutputs ==
    /\ pc = "output"
    /\ LET r == ChannelLoop(0, 0, phase_scan,
                            <<Ev("csv_header", "csv", -1, -1, -1, 1)>>)
       IN /\ trace' = trace \o r.events
                        \o <<Ev("pdf_page", "summary", -1, -1, -1, 0)>>
          /\ channel_in_plot' = r.in_plot
    /\ chn_i' = total_asic * scan_chn_numbers_per_asic - 1
    /\ warned' = (phase_scan = 0)
    /\ lastOk' = TRUE
    /\ pc' = "finally"
    /\ UNCHANGED <<i2c_arg, files, input_i2c_json_names, input_pede_jsons,
                   input_pede_phase, phase_setting, phase_msg, scan_config,
                   asic_i, key_i, phase_i, asic_config, phase_scan, gen_params,
                   sockets, registered, exit_status, exc, inj_list>>
    /\ UNCHANGED <<csvVars, voltVars, extVars>>

\* lines 602-609
Finally ==
    /\ pc = "finally"
    /\ registered' = {}
    /\ sockets' = FALSE
    /\ exit_status' = 0
    /\ pc' = "done"
    /\ warned' = FALSE
    /\ lastOk' = TRUE
    /\ UNCHANGED <<i2c_arg, files, input_i2c_json_names, input_pede_jsons,
                   input_pede_phase, phase_setting, phase_msg, scan_config,
                   asic_i, key_i, phase_i, chn_i, asic_config, phase_scan,
                   channel_in_plot, gen_params, trace, exc, inj_list>>
    /\ UNCHANGED <<csvVars, voltVars, extVars>>

(***************************************************************************)
(* Specification of the DAQ script                                         *)
(***************************************************************************)
CsvIdle ==
    /\ cpc = "idle" /\ csv_rows = <<>> /\ csv_x = <<>> /\ csv_y = <<>>
    /\ hist = [built |-> FALSE, edges2 |-> <<>>, content |-> <<>>, error |-> <<>>]

VoltIdle ==
    /\ vpc = "idle" /\ csv_file = <<>>
    /\ v_result = [v_val |-> [num |-> -1, scale |-> -1], label |-> <<>>, tag |-> <<>>]

\* the variables of the LED resolution functions, when they do not run
ResIdle ==
    /\ rpc = "idle" /\ variant = "" /\ listing = {} /\ csv_files = <<>>
    /\ file_i = 1
    /\ voltages = <<>> /\ resolutions = <<>> /\ v_errors = <<>>
    /\ res_errors = <<>>
    /\ seen = <<>> /\ loc = <<>> /\ res_ret = <<>>

InlIdle == ipc = "idle" /\ script = "" /\ inl = <<>>

CtrIdle ==
    /\ fpc = "idle" /\ scan = "" /\ root_file = "" /\ run_calls = <<>>
    /\ peak_H = <<>> /\ peak_V = <<>> /\ saved = <<>> /\ fexc = ""
    /\ analyze_ret = <<>>

ExtIdle == ResIdle /\ InlIdle /\ CtrIdle

DaqStart ==
    /\ pc = "args"
    /\ files = <<>>
    /\ input_i2c_json_names = <<>>
    /\ input_pede_jsons = <<>>
    /\ input_pede_phase = <<>>
    /\ phase_setting = phase_setting_default
    /\ phase_msg = ""
    /\ scan_config = <<>>
    /\ asic_i = 0 /\ key_i = 1 /\ phase_i = 1 /\ chn_i = 0
    /\ asic_config = 0
    /\ lastOk = TRUE
    /\ warned = FALSE
    /\ phase_scan = 0
    /\ channel_in_plot = 0
    /\ gen_params = <<>>
    /\ trace = <<>>
    /\ sockets = FALSE
    /\ registered = {}
    /\ exit_status = -1
    /\ exc = ""
    /\ inj_list = 0

Init ==
    /\ i2c_arg \in ScanArgStrings \cup {NoneArg}
    /\ DaqStart
    /\ CsvIdle
    /\ VoltIdle
    /\ ExtIdle

Next ==
    \/ ParseArgs
    \/ FindUdpSettings
    \/ InitWorkerSockets
    \/ ReadPedestal
    \/ SelectPhase
    \/ BuildScanConfig
    \/ RegStep
    \/ GenSetup
    \/ PhaseStart
    \/ LrOn
    \/ Inject
    \/ LrOff
    \/ Collect
    \/ WriteOutputs
    \/ Finally

Spec == Init /\ [][Next]_vars

(***************************************************************************)
(* Specification of the argument handling, lines 53-184                    *)
(***************************************************************************)
InitArgs ==
    /\ i2c_arg \in ArgStrings \cup {NoneArg}
    /\ DaqStart
    /\ CsvIdle
    /\ VoltIdle
    /\ ExtIdle

NextArgs ==
    \/ ParseArgs
    \/ FindUdpSettings
    \/ InitWorkerSockets

SpecArgs == InitArgs /\ [][NextArgs]_vars

(***************************************************************************)
(* Properties of the DAQ script                                            *)
(***************************************************************************)
RegWriteKinds == {"chn", "global_analog", "digital_half"}

StageOf(e) ==
    IF e.ev = "i2c" /\ e.kind \in RegWriteKinds THEN 1
    ELSE IF e.ev = "gen" THEN 2
    ELSE IF e.ev = "inj" \/ (e.ev = "i2c" /\ e.kind \in {"lr_on", "lr_off"}) THEN 3
    ELSE 4

IsInj(e) == e.ev = "inj"

IsGen(e) == e.ev = "gen"

InjectedPhases ==
    LET inj == SelectSeq(trace, IsInj) IN [i \in DOMAIN inj |-> inj[i].phase]

OutputStage == {"output", "finally", "done"}

PhaseStage == {"phase_start", "lr_on", "inj", "lr_off", "collect"}

ListedPhases == <<0, 1, 2, 3, 5, 8, 9, 10, 11, 12, 13, 14, 15>>

\* C1: the external effects happen in the order register writes (all three
\* kinds, for every ASIC), one generator set-up, the 13 injections in the
\* listed phase order, then CSV rows and PDF pages; a CSV or PDF effect is
\* only ever present once all 13 injections have been made.
C1_Order ==
    LET ip == InjectedPhases
        n == Len(trace)
    IN /\ \A i \in 1..(n - 1) : StageOf(trace[i]) <= StageOf(trace[i + 1])
       /\ Len(ip) <= Len(ListedPhases)
       /\ ip = SubSeq(ListedPhases, 1, Len(ip))
       /\ (pc \in OutputStage \/ (n > 0 /\ StageOf(trace[n]) = 4)) =>
             /\ ip = ListedPhases
             /\ Len(SelectSeq(trace, IsGen)) = 1
             /\ \A a \in 0..(total_asic - 1) : \A k \in RegWriteKinds :
                   \E i \in DOMAIN trace :
                       trace[i].ev = "i2c" /\ trace[i].kind = k /\ trace[i].asic = a

C1_Witness ==
    /\ pc = "done"
    /\ \E i \in DOMAIN trace : trace[i].ev = "csv_rows"
    /\ \E i \in DOMAIN trace : trace[i].ev = "pdf_page" /\ trace[i].kind = "group"

IsSendCheckStep ==
    /\ Len(trace') = Len(trace) + 1
    /\ trace'[Len(trace')].ev \in {"i2c", "gen"}

\* C2: a send_check_* call that reports failure is followed by a warning and
\* by the same next step as a successful one; every register write is made
\* with retry = 50; once the first write has been issued the script never
\* aborts, and it finishes with all 13 injections, the CSV and the PDF.
C2_FailureOnlyWarns ==
    /\ [][(IsSendCheckStep /\ ~lastOk') =>
            /\ warned'
            /\ pc' \notin {"exit", "crash", "finally", "done"}
            /\ exit_status' = -1
            /\ exc' = ""]_vars
    /\ [](\A i \in DOMAIN trace : trace[i].ev = "i2c" => trace[i].n = 50)
    /\ [](trace # <<>> => pc \notin {"exit", "crash"})
    /\ [](pc = "done" =>
            /\ Len(InjectedPhases) = 13
            /\ \E i \in DOMAIN trace : trace[i].ev = "csv_header"
            /\ trace[Len(trace)].ev = "pdf_page")

C2_Witness ==
    /\ pc = "collect"
    /\ ~lastOk /\ warned
    /\ trace[Len(trace)].kind = "lr_off"
    /\ Len(InjectedPhases) = 13

\* value of a most-significant-bit-first binary numeral
RECURSIVE FromBits(_)
FromBits(b) ==
    IF b = <<>> THEN 0 ELSE 2 * FromBits(SubSeq(b, 1, Len(b) - 1)) + b[Len(b)]

BitSet(v, a) == (v \div Shl1(a)) % 2 = 1

\* C3: the generator set-up enables the pre-command, the pre-command is the
\* internal-injection fast command 0b00101101, command and DAQ command are
\* L1A 0b01001011, and data collection is enabled for exactly the ASICs
\* 0..total_asic-1 (mask 0x03); it is sent once, before any injection.
C3_GenParams ==
    /\ Len(gen_params) <= 1
    /\ (\E i \in DOMAIN trace : trace[i].ev = "inj") => Len(gen_params) = 1
    /\ \A g \in DOMAIN gen_params :
         /\ gen_params[g].gen_preimp_en = 1
         /\ gen_params[g].gen_pre_fcmd = FromBits(<<0, 0, 1, 0, 1, 1, 0, 1>>)
         /\ gen_params[g].gen_fcmd = FromBits(<<0, 1, 0, 0, 1, 0, 1, 1>>)
         /\ gen_params[g].daq_fcmd = FromBits(<<0, 1, 0, 0, 1, 0, 1, 1>>)
         /\ {a \in 0..7 : BitSet(gen_params[g].data_coll_en, a)} = 0..(total_asic - 1)
         /\ gen_params[g].data_coll_en = 3

C3_Witness == pc = "inj" /\ Len(gen_params) = 1

\* C4 (as claimed): with a single settings file in effect, the pedestal step
\* leaves total_asic entries in input_pede_jsons and the set-up loop finds a
\* configuration for every ASIC.
C4_Claim ==
    (Len(input_i2c_json_names) = 1 /\ pc \in {"phase_sel", "scan_cfg", "regs", "crash"}
       /\ exc \in {"", "IndexError"})
      => (Len(input_pede_jsons) = total_asic /\ exc # "IndexError")

CountOf(s, c) == Cardinality({i \in DOMAIN s : s[i] = c})

\* the two names around the only comma of s
CommaParts(s) ==
    LET k == CHOOSE i \in DOMAIN s : s[i] = ","
    IN <<SubSeq(s, 1, k - 1), SubSeq(s, k + 1, Len(s))>>

RejectedArg ==
    /\ i2c_arg # NoneArg
    /\ \/ CountOf(i2c_arg, ",") > 1
       \/ /\ CountOf(i2c_arg, ",") = 1
          /\ \E n \in 1..2 : ~EndsWithJson(CommaParts(i2c_arg)[n])
       \/ /\ CountOf(i2c_arg, ",") = 0
          /\ (files[i2c_arg] = Missing \/ ~EndsWithJson(i2c_arg))

ExitedBeforeSockets ==
    /\ pc = "exit" /\ exit_status = 1
    /\ ~sockets /\ registered = {} /\ trace = <<>>

\* C5: once the -i argument has been handled, a value with a comma that does
\* not split into exactly two names, a name not ending in ".json" and a
\* single name that does not exist have each made the script exit with
\* status 1 before any socket was opened or port registered; an accepted
\* argument yields exactly the names given; without -i the default name is
\* the only entry.
C5_ArgValidation ==
    pc # "args" =>
      /\ RejectedArg => ExitedBeforeSockets
      /\ i2c_arg = NoneArg => input_i2c_json_names = <<input_i2c_json_name_default>>
      /\ (i2c_arg # NoneArg /\ ~RejectedArg) =>
            input_i2c_json_names =
               IF CountOf(i2c_arg, ",") = 1 THEN CommaParts(i2c_arg) ELSE <<i2c_arg>>

C5_Witness ==
    /\ ExitedBeforeSockets
    /\ CountOf(i2c_arg, ",") = 1
    /\ EndsWithJson(CommaParts(i2c_arg)[1])
    /\ ~EndsWithJson(CommaParts(i2c_arg)[2])

CarriedPhases ==
    {input_pede_jsons[i].phase : i \in {j \in DOMAIN input_pede_jsons :
         input_pede_jsons[j].pede /\ input_pede_jsons[j].phase # NoPhase}}

AfterPhaseSelection == pc \in {"scan_cfg", "regs", "gen"} \cup PhaseStage \cup OutputStage
                          \/ (pc = "crash" /\ exc = "IndexError")

\* C6: after phase selection, phase_setting is the common phase_setting of
\* the loaded configurations when all that carry one carry the same value,
\* and the default 12 when none carries one or they differ.
C6_PhaseSelection ==
    AfterPhaseSelection =>
        IF Cardinality(CarriedPhases) = 1
          THEN phase_setting \in CarriedPhases
          ELSE phase_setting = 12

C6_Witness ==
    /\ pc = "regs"
    /\ Cardinality(CarriedPhases) = 1
    /\ Len(input_pede_jsons) = 2
    /\ phase_setting # 12

\* C7 (as claimed): a loaded configuration without a PedestalCalib section
\* is not an error: the run goes on to phase selection, reports that no
\* phase setting was found and keeps the default.
C7_Claim ==
    (pc \notin {"args", "udp", "sockets", "pede", "exit"}
       /\ \E i \in DOMAIN input_pede_jsons : ~input_pede_jsons[i].pede)
      => exc # "KeyError"

(***************************************************************************)
(* read_binned_hist_csv (Test_LED_Analysis/plot_resolution_vs_voltage.py)  *)
(*                                                                         *)
(* A CSV file is the sequence of rows csv.reader yields, a row a sequence  *)
(* of text fields.                                                         *)
(***************************************************************************)
MaxRows == 3          \* rows of a CSV file
MaxBins == 3          \* bin centers handed to make_th1_from_centers_counts

NumTexts == {"-1", "4"}
Fields == NumTexts \cup {"nan", "bin_center"}

CsvRowSet ==
    {<<>>, <<"4">>, <<"bin_center">>, <<"4", "4", "bin_center">>,
     <<"bin_center", "4", "4">>}
      \cup {<<f, g>> : f \in Fields, g \in Fields}

CsvFiles == UNION {[1..k -> CsvRowSet] : k \in 0..MaxRows}

\* float(text) raises ValueError
FloatRaises(f) == f \notin NumTexts \cup {"nan"}

\* math.isnan(float(text))
FloatIsNaN(f) == f = "nan"

\* float(text) of a numeral
FloatOf(f) == IF f = "-1" THEN -1 ELSE IF f = "4" THEN 4 ELSE 0

\* lines 30-38: the row is kept
RowKept(row) ==
    /\ Len(row) >= 2
    /\ ~FloatRaises(row[1]) /\ ~FloatRaises(row[2])
    /\ ~FloatIsNaN(row[1]) /\ ~FloatIsNaN(row[2])

\* lines 29-40
RECURSIVE ReadRows(_, _)
ReadRows(rows, acc) ==
    IF rows = <<>> THEN acc
    ELSE IF RowKept(Head(rows))
      THEN ReadRows(Tail(rows),
                    [x |-> Append(acc.x, FloatOf(Head(rows)[1])),
                     y |-> Append(acc.y, FloatOf(Head(rows)[2]))])
      ELSE ReadRows(Tail(rows), acc)

\* line 28: next(reader, None)
SkipFirst(rows) == IF rows = <<>> THEN rows ELSE Tail(rows)

read_binned_hist_csv(rows) == ReadRows(SkipFirst(rows), [x |-> <<>>, y |-> <<>>])

ReadCsv ==
    /\ cpc = "start"
    /\ LET r == read_binned_hist_csv(csv_rows)
       IN csv_x' = r.x /\ csv_y' = r.y
    /\ cpc' = "read"
    /\ UNCHANGED <<csv_rows, hist>>
    /\ UNCHANGED <<daqVars, voltVars, extVars>>

(***************************************************************************)
(* make_th1_from_centers_counts.  Bin edges are kept in half units:        *)
(* edges2[i] is twice the edge, so that 0.5 * (a + b) is exact.            *)
(***************************************************************************)
NoHist == [built |-> FALSE, edges2 |-> <<>>, content |-> <<>>, error |-> <<>>]

\* math.sqrt on the counts of the model, which are perfect squares
Sqrt(c) == CHOOSE r \in 0..c : r * r = c

\* line 61
BinError(c) == IF c >= 0 THEN Sqrt(c) ELSE 0

\* line 52, with the first center instead of the one before the last
LastEdge2_fromFirst(x) == 2 * x[Len(x)] + (x[Len(x)] - x[1])

\* line 52
LastEdge2(x) == 2 * x[Len(x)] + (x[Len(x)] - x[Len(x) - 1])

\* lines 48-52
Edges2(x) ==
    [i \in 1..(Len(x) + 1) |->
        IF i = 1 THEN 2 * x[1] - (x[2] - x[1])
        ELSE IF i = Len(x) + 1 THEN LastEdge2(x)
        ELSE x[i - 1] + x[i]]

make_th1_from_centers_counts(x, y) ==
    IF Len(x) < 2 THEN NoHist
    ELSE [built |-> TRUE,
          edges2 |-> Edges2(x),
          content |-> [i \in 1..Len(y) |-> y[i]],
          error |-> [i \in 1..Len(y) |-> BinError(y[i])]]

MakeTh1 ==
    /\ cpc = "read"
    /\ hist' = make_th1_from_centers_counts(csv_x, csv_y)
    /\ cpc' = "hist"
    /\ UNCHANGED <<csv_rows, csv_x, csv_y>>
    /\ UNCHANGED <<daqVars, voltVars, extVars>>

DaqIdle == DaqStart /\ pc = "args" /\ i2c_arg = NoneArg

\* a CSV file, read and turned into a histogram
InitCsv ==
    /\ cpc = "start"
    /\ csv_rows \in CsvFiles
    /\ csv_x = <<>> /\ csv_y = <<>>
    /\ hist = NoHist
    /\ DaqIdle
    /\ VoltIdle
    /\ ExtIdle

NextCsv ==
    \/ ReadCsv
    \/ MakeTh1

SpecCsv == InitCsv /\ [][NextCsv]_vars

\* centers and counts as read_binned_hist_csv returns them: two lists of
\* numbers of the same length
HistValues == {-1, 0, 4, 9}

InitHist ==
    /\ cpc = "read"
    /\ csv_rows = <<>>
    /\ \E n \in 0..MaxBins :
         /\ csv_x \in [1..n -> HistValues]
         /\ csv_y \in [1..n -> HistValues]
    /\ hist = NoHist
    /\ DaqIdle
    /\ VoltIdle
    /\ ExtIdle

NextHist == MakeTh1

SpecHist == InitHist /\ [][NextHist]_vars

KeptIndexes == {i \in DOMAIN csv_rows : RowKept(csv_rows[i])}

\* the i-th smallest element of a set of numbers
RECURSIVE Nth(_, _)
Nth(S, i) ==
    LET m == CHOOSE v \in S : \A w \in S : v <= w
    IN IF i = 1 THEN m ELSE Nth(S \ {m}, i - 1)

\* C8 (as claimed): the lists returned are, in file order, the first two
\* fields of exactly the rows with at least two fields whose first two
\* fields are non-NaN numbers, so a file without a header loses no row.
C8_Claim ==
    cpc = "read" =>
      /\ Len(csv_x) = Cardinality(KeptIndexes)
      /\ Len(csv_y) = Len(csv_x)
      /\ \A i \in DOMAIN csv_x :
            /\ csv_x[i] = FloatOf(csv_rows[Nth(KeptIndexes, i)][1])
            /\ csv_y[i] = FloatOf(csv_rows[Nth(KeptIndexes, i)][2])

\* C9: make_th1_from_centers_counts returns None for fewer than 2 centers;
\* for n >= 2 centers it builds n+1 edges with edge[i] = (x[i-1]+x[i])/2
\* inside, edge[0] = x[0] - (x[1]-x[0])/2 and edge[n] = x[n-1] +
\* (x[n-1]-x[n-2])/2, and bin i holds y[i-1] with error sqrt(y[i-1]) for a
\* count >= 0 and error 0 for a negative count.
C9_Histogram ==
    cpc = "hist" =>
      LET n == Len(csv_x)
      IN IF n < 2 THEN ~hist.built
         ELSE /\ hist.built
              /\ Len(hist.edges2) = n + 1
              /\ \A i \in 1..(n - 1) : hist.edges2[i + 1] = csv_x[i] + csv_x[i + 1]
              /\ hist.edges2[1] = 2 * csv_x[1] - (csv_x[2] - csv_x[1])
              /\ hist.edges2[n + 1] = 2 * csv_x[n] + (csv_x[n] - csv_x[n - 1])
              /\ Len(hist.content) = n /\ Len(hist.error) = n
              /\ \A i \in 1..n :
                    /\ hist.content[i] = csv_y[i]
                    /\ hist.error[i] >= 0
                    /\ IF csv_y[i] >= 0
                         THEN hist.error[i] * hist.error[i] = csv_y[i]
                         ELSE hist.error[i] = 0

C9_Witness ==
    /\ cpc = "hist"
    /\ hist.built
    /\ Len(csv_x) = 3
    /\ \E i \in 1..3 : csv_y[i] < 0
    /\ \E i \in 1..3 : csv_y[i] > 0

(***************************************************************************)
(* parse_voltage (Test_LED_oscilloscope_Analysis/plot_resolution_vs_       *)
(* voltage.py).  A file name is a sequence of characters; a voltage is the *)
(* exact decimal num / 10^scale.                                           *)
(***************************************************************************)
MaxNameLen == 5       \* characters of a file name

NameChars == {"1", "3", "5", "7", "V", "_"}
FileNames == UNION {[1..k -> NameChars] : k \in 0..MaxNameLen}

DigitChars == <<"0", "1", "2", "3", "4", "5", "6", "7", "8", "9">>

\* \d
IsDigit(c) == \E d \in DOMAIN DigitChars : DigitChars[d] = c

DigitVal(c) == (CHOOSE d \in DOMAIN DigitChars : DigitChars[d] = c) - 1

\* (\d+), greedy: the last index of the run of digits that starts at i
RECURSIVE RunEnd(_, _)
RunEnd(s, i) ==
    IF i + 1 <= Len(s) /\ IsDigit(s[i + 1]) THEN RunEnd(s, i + 1) ELSE i

\* (\d+)V(\d+) matches at position i
MatchAt(s, i) ==
    /\ IsDigit(s[i])
    /\ LET j == RunEnd(s, i)
       IN j + 2 <= Len(s) /\ s[j + 1] = "V" /\ IsDigit(s[j + 2])

\* re.search: the first position at which the pattern matches, 0 when none
RECURSIVE SearchFrom(_, _)
SearchFrom(s, i) ==
    IF i > Len(s) THEN 0
    ELSE IF MatchAt(s, i) THEN i
    ELSE SearchFrom(s, i + 1)

\* int of a digit string
RECURSIVE DecValue(_)
DecValue(ds) ==
    IF ds = <<>> THEN 0
    ELSE 10 * DecValue(SubSeq(ds, 1, Len(ds) - 1)) + DigitVal(ds[Len(ds)])

RECURSIVE Pow10(_)
Pow10(k) == IF k = 0 THEN 1 ELSE 10 * Pow10(k - 1)

\* str(n) for n >= 0
RECURSIVE IntToStr(_)
IntToStr(n) ==
    IF n < 10 THEN <<DigitChars[n + 1]>>
    ELSE Append(IntToStr(n \div 10), DigitChars[(n % 10) + 1])

\* float(text) of the decimal p / q: the largest e with q * 2^e <= p (p >= q)
RECURSIVE Log2Floor(_, _)
Log2Floor(p, q) == IF p \div 2 >= q THEN 1 + Log2Floor(p \div 2, q) ELSE 0

\* the least m with p * 2^m >= q (0 < p < q)
RECURSIVE Log2Up(_, _)
Log2Up(p, q) == IF 2 * p >= q THEN 1 ELSE 1 + Log2Up(2 * p, q)

\* r * 2^k modulo m
RECURSIVE DoubleMod(_, _, _)
DoubleMod(r, k, m) == IF k = 0 THEN r ELSE DoubleMod((2 * r) % m, k - 1, m)

\* float(text) rounds p / q to 53 significant bits, ties to the even
\* mantissa: 0 when the double is p / q, -1 when it is below, 1 when above
DoubleSide(p, q) ==
    IF p = 0 THEN 0
    ELSE LET k == IF p >= q THEN 52 - Log2Floor(p, q) ELSE 52 + Log2Up(p, q)
             r2 == DoubleMod(p % (2 * q), k, 2 * q)
             r == r2 % q
         IN IF r = 0 THEN 0
            ELSE IF 2 * r < q THEN -1
            ELSE IF 2 * r > q THEN 1
            ELSE IF r2 >= q THEN 1 ELSE -1

\* the hundredths of v, cut instead of rounded
Hundredths_cut(v) ==
    IF v.scale <= 2 THEN v.num * Pow10(2 - v.scale)
    ELSE v.num \div Pow10(v.scale - 2)

\* v rounded to hundredths, as the format .2f rounds the double float() made
\* of the decimal: a value half-way between two hundredths goes to the side
\* of its double, and to the even hundredth when the double is exact
Hundredths(v) ==
    IF v.scale <= 2 THEN v.num * Pow10(2 - v.scale)
    ELSE LET d == Pow10(v.scale - 2)
             h == v.num \div d
             side == DoubleSide(v.num, Pow10(v.scale))
         IN IF 2 * (v.num % d) > d THEN h + 1
            ELSE IF 2 * (v.num % d) < d THEN h
            ELSE IF side > 0 THEN h + 1
            ELSE IF side < 0 THEN h
            ELSE IF h % 2 = 0 THEN h ELSE h + 1

\* f"{v_val:.2f}"
FormatFixed2(v) ==
    LET h == Hundredths(v)
    IN IntToStr(h \div 100) \o <<".", DigitChars[((h % 100) \div 10) + 1],
                                 DigitChars[(h % 10) + 1]>>

NoneVal == [num |-> -1, scale |-> -1]
Unknown == <<"u", "n", "k", "n", "o", "w", "n">>

parse_voltage(s) ==
    LET i == SearchFrom(s, 1)
    IN IF i = 0 THEN [v_val |-> NoneVal, label |-> Unknown, tag |-> Unknown]
       ELSE LET j == RunEnd(s, i)
                k == RunEnd(s, j + 2)
                v_int == SubSeq(s, i, j)
                v_dec == SubSeq(s, j + 2, k)
                v_val == [num |-> DecValue(v_int \o v_dec), scale |-> Len(v_dec)]
            IN [v_val |-> v_val,
                label |-> FormatFixed2(v_val) \o <<" ", "V">>,
                tag |-> FormatFixed2(v_val) \o <<"V">>]

NoResult == [v_val |-> NoneVal, label |-> <<>>, tag |-> <<>>]

ParseVoltage ==
    /\ vpc = "start"
    /\ v_result' = parse_voltage(csv_file)
    /\ vpc' = "done"
    /\ UNCHANGED csv_file
    /\ UNCHANGED <<daqVars, csvVars, extVars>>

InitVolt ==
    /\ vpc = "start"
    /\ csv_file \in FileNames
    /\ v_result = NoResult
    /\ DaqIdle
    /\ CsvIdle
    /\ ExtIdle

NextVolt == ParseVoltage

SpecVolt == InitVolt /\ [][NextVolt]_vars

\* occurrences <digits>V<digits> in the file name: digits at i..j, V at j+1,
\* digits at j+2..k
Occurrences ==
    {t \in [i : DOMAIN csv_file, j : DOMAIN csv_file, k : DOMAIN csv_file] :
        /\ t.i <= t.j /\ t.j + 2 <= t.k
        /\ \A m \in t.i..t.j : IsDigit(csv_file[m])
        /\ csv_file[t.j + 1] = "V"
        /\ \A m \in (t.j + 2)..t.k : IsDigit(csv_file[m])}

\* the first occurrence, with all the digits that follow the V
FirstOccurrence ==
    CHOOSE t \in Occurrences :
        \A u \in Occurrences : t.i <= u.i /\ (u.i = t.i => u.k <= t.k)

\* text is <digits>.<2 digits> and is v rounded to two decimals
IsTwoDecimalsOf(text, v) ==
    /\ Len(text) >= 4
    /\ text[Len(text) - 2] = "."
    /\ \A m \in DOMAIN text : m # Len(text) - 2 => IsDigit(text[m])
    /\ (Len(text) > 4 => text[1] # "0")
    /\ LET hundredths == DecValue(SubSeq(text, 1, Len(text) - 3)
                                    \o SubSeq(text, Len(text) - 1, Len(text)))
           diff == v.num * 100 - hundredths * Pow10(v.scale)
       IN 2 * diff <= Pow10(v.scale) /\ -2 * diff <= Pow10(v.scale)

\* C10: parse_voltage maps a name with a first occurrence <int>V<dec> to
\* the value int.dec, the label '<value to 2 decimals> V' and the tag
\* '<value to 2 decimals>V'; a name without the pattern maps to
\* (None, 'unknown', 'unknown'); e.g. '_1V33' gives (1.33, '1.33 V', '1.33V').
C10_ParseVoltage ==
    vpc = "done" =>
      /\ csv_file = <<"_", "1", "V", "3", "3">> =>
            v_result = [v_val |-> [num |-> 133, scale |-> 2],
                        label |-> <<"1", ".", "3", "3", " ", "V">>,
                        tag |-> <<"1", ".", "3", "3", "V">>]
      /\ IF Occurrences = {}
        THEN v_result = [v_val |-> NoneVal, label |-> Unknown, tag |-> Unknown]
        ELSE LET t == FirstOccurrence
                 int_part == SubSeq(csv_file, t.i, t.j)
                 dec_part == SubSeq(csv_file, t.j + 2, t.k)
                 body == SubSeq(v_result.tag, 1, Len(v_result.tag) - 1)
             IN /\ v_result.v_val.scale = Len(dec_part)
                /\ v_result.v_val.num =
                      DecValue(int_part) * Pow10(Len(dec_part)) + DecValue(dec_part)
                /\ IsTwoDecimalsOf(body, v_result.v_val)
                /\ v_result.tag = body \o <<"V">>
                /\ v_result.label = body \o <<" ", "V">>

C10_Witness ==
    /\ vpc = "done"
    /\ Cardinality({t.i : t \in Occurrences}) >= 2
    /\ v_result.v_val.scale = 1
    /\ v_result.tag = <<"3", ".", "1", "0", "V">>

(***************************************************************************)
(* compute_resolution_points (Test_LED_Analysis/plot_resolution_vs_        *)
(* voltage.py), compute_resolution_points_area and                         *)
(* compute_resolution_points_amp_gaus_window (Test_LED_oscilloscope_       *)
(* Analysis/plot_resolution_vs_voltage.py).                                *)
(*                                                                         *)
(* A float is a fixed-point number of thousandths: the integer n stands    *)
(* for n / 1000, and products, quotients and square roots are rounded      *)
(* towards 0.  NaN is the float not-a-number, PyNone is None.              *)
(***************************************************************************)
MaxFiles == 2         \* entries of the data directory

NaN == -1000000007
PyNone == -1000000009
Unit == 1000

\* math.isnan
IsNaN(a) == a = NaN

Abs(a) == IF a < 0 THEN -a ELSE a

\* the integer quotient, rounded towards 0
Quot(a, b) ==
    LET q == Abs(a) \div Abs(b) IN IF (a < 0) = (b < 0) THEN q ELSE -q

\* the largest r with r * r <= n
RECURSIVE ISqrt(_)
ISqrt(n) ==
    IF n < 2 THEN n
    ELSE LET s == 2 * ISqrt(n \div 4)
         IN IF (s + 1) * (s + 1) <= n THEN s + 1 ELSE s

\* a + b, a * b, a / b, abs(a), math.sqrt(a), a > b on floats
FAdd(a, b) == IF IsNaN(a) \/ IsNaN(b) THEN NaN ELSE a + b

FMul(a, b) == IF IsNaN(a) \/ IsNaN(b) THEN NaN ELSE Quot(a * b, Unit)

FDiv(a, b) == IF IsNaN(a) \/ IsNaN(b) THEN NaN ELSE Quot(a * Unit, b)

FAbs(a) == IF IsNaN(a) THEN NaN ELSE Abs(a)

FSqrt(a) == IF IsNaN(a) THEN NaN ELSE ISqrt(a * Unit)

FGt(a, b) == ~IsNaN(a) /\ ~IsNaN(b) /\ a > b

\* a <= b on floats
FLe(a, b) == ~IsNaN(a) /\ ~IsNaN(b) /\ a <= b

\* a ** 2
FSq(a) == FMul(a, a)

\* x * 100.0
Times100(a) == FMul(a, 100 * Unit)

\* the truth value of a float or None
Truthy(a) == a # PyNone /\ a # 0

(***************************************************************************)
(* The data directory.  A file name is a sequence of atoms; an atom is a   *)
(* character or one of the substrings below.                               *)
(***************************************************************************)
file_prefix == "hist_area_"

DirNames ==
    {<<"hist_area_", "1", "V", "3", ".csv">>,
     <<"hist_area_", "1", "3", "V", "1", ".csv">>,
     <<"hist_area_", "1", "V", "3", "0", ".csv">>,
     <<"hist_area_", "x", ".csv">>,
     <<"hist_area_", "1", "V", "3", ".txt">>,
     <<"other_", "3", "V", "1", ".csv">>}

Listings == {S \in SUBSET DirNames : Cardinality(S) <= MaxFiles}

\* the atoms in the order of their first characters: . 0 1 3 V h o x
AtomOrder == <<".csv", ".txt", "0", "1", "3", "V", "hist_area_", "other_", "x">>

AtomRank(a) == CHOOSE r \in DOMAIN AtomOrder : AtomOrder[r] = a

\* a < b on strings
RECURSIVE StrLess(_, _)
StrLess(a, b) ==
    IF b = <<>> THEN FALSE
    ELSE IF a = <<>> THEN TRUE
    ELSE IF Head(a) = Head(b) THEN StrLess(Tail(a), Tail(b))
    ELSE AtomRank(Head(a)) < AtomRank(Head(b))

\* sorted(...) of a set of names
RECURSIVE SortedNames(_)
SortedNames(S) ==
    IF S = {} THEN <<>>
    ELSE LET m == CHOOSE n \in S : \A o \in S \ {n} : StrLess(n, o)
         IN <<m>> \o SortedNames(S \ {m})

\* f.startswith(file_prefix) and f.endswith(".csv")
MatchesPrefixCsv(f) == Len(f) >= 1 /\ f[1] = file_prefix /\ f[Len(f)] = ".csv"

\* line 85 (144, 223)
ListCsvFiles(dir) == SortedNames({f \in dir : MatchesPrefixCsv(f)})

\* the CSV files found under the names of the directory
ResCsvFiles ==
    {<<>>,
     <<<<"bin_center", "bin_center">>, <<"-1", "4">>>>,
     <<<<"bin_center", "bin_center">>, <<"-1", "4">>, <<"4", "4">>>>,
     <<<<"-1", "4">>, <<"4", "4">>>>,
     <<<<"bin_center", "bin_center">>, <<"-1", "4">>, <<"nan", "4">>, <<"4", "4">>>>}

(***************************************************************************)
(* What ROOT returns.  TH1.GetMean / GetRMS of a histogram with a          *)
(* non-finite bin content are NaN; the errors are never negative.          *)
(***************************************************************************)
MeanVals == {NaN, -5000, 0, 5000}
RmsVals == {NaN, 0, 5000}
StatErrVals == {[mean_err |-> 0, rms_err |-> 0], [mean_err |-> 4000, rms_err |-> 3000]}

\* h.GetMean(), h.GetRMS() of one histogram
FullStats ==
    {[mean |-> NaN, rms |-> NaN], [mean |-> 0, rms |-> 0],
     [mean |-> 5000, rms |-> 0], [mean |-> 5000, rms |-> 5000]}

\* h.Integral()
IntegralVals == {0, 4000}

\* h.Fit(gaus, "RQS0"): the status and, for parameters 1 and 2, value and error
RootFits ==
    {[status |-> 4, par1 |-> 0, err1 |-> 0, par2 |-> 0, err2 |-> 0],
     [status |-> 0, par1 |-> 0, err1 |-> 400, par2 |-> 2000, err2 |-> 200],
     [status |-> 0, par1 |-> 4000, err1 |-> 400, par2 |-> 2000, err2 |-> 200],
     [status |-> 0, par1 |-> 4000, err1 |-> 0, par2 |-> 0, err2 |-> 0]}

\* GetBinContent(b), GetBinCenter(b) for b in bin_low..bin_high
WindowBins ==
    {<<>>,
     <<[w |-> 4000, xv |-> 5000]>>,
     <<[w |-> 4000, xv |-> 2000], [w |-> 4000, xv |-> 8000]>>,
     <<[w |-> -1000, xv |-> 5000]>>,
     <<[w |-> 4000, xv |-> 0]>>}

(***************************************************************************)
(* Helpers of the oscilloscope script                                      *)
(***************************************************************************)
\* lines 95-121
gauss_fit(fit) ==
    IF fit.status # 0
      THEN [status |-> fit.status, mean |-> PyNone, mean_err |-> PyNone,
            sigma |-> PyNone, sigma_err |-> PyNone]
      ELSE [status |-> fit.status, mean |-> fit.par1, mean_err |-> fit.err1,
            sigma |-> fit.par2, sigma_err |-> fit.err2]

\* lines 79-87
RECURSIVE SumBins(_)
SumBins(bins) ==
    IF bins = <<>> THEN [sumw |-> 0, sumwx |-> 0, sumwx2 |-> 0]
    ELSE LET r == SumBins(SubSeq(bins, 1, Len(bins) - 1))
             b == bins[Len(bins)]
         IN [sumw |-> FAdd(r.sumw, b.w),
             sumwx |-> FAdd(r.sumwx, FMul(b.w, b.xv)),
             sumwx2 |-> FAdd(r.sumwx2, FMul(FMul(b.w, b.xv), b.xv))]

\* lines 77-93
weighted_mean_rms_in_bins(bins) ==
    LET s == SumBins(bins)
    IN IF FLe(s.sumw, 0) THEN [mean |-> 0, rms |-> 0, n |-> 0]
       ELSE LET mean == FDiv(s.sumwx, s.sumw)
                var == FAdd(FDiv(s.sumwx2, s.sumw), -FMul(mean, mean))
            IN [mean |-> mean,
                rms |-> IF FGt(var, 0) THEN FSqrt(var) ELSE 0,
                n |-> s.sumw]

\* lines 123-133
res_and_err_from_sigma_mu(sigma, sigma_err, mu, mu_err) ==
    IF mu = 0 \/ sigma = PyNone \/ mu = PyNone THEN [R |-> 0, eR |-> 0]
    ELSE LET R == FDiv(sigma, mu)
         IN IF sigma = 0 THEN [R |-> R, eR |-> 0]
            ELSE LET rel ==
                       IF sigma_err # PyNone /\ mu_err # PyNone /\ sigma # 0 /\ mu # 0
                         THEN FSqrt(FAdd(FSq(FDiv(sigma_err, sigma)),
                                         FSq(FDiv(mu_err, mu))))
                         ELSE 0
                 IN [R |-> R, eR |-> FMul(FAbs(R), rel)]

\* lines 192-199 (277-283): RMS/Mean and its error from the number of counts
RmsFallback(mean, rms, N) ==
    LET R == IF mean # 0 THEN FDiv(rms, mean) ELSE 0
        mu_err == IF FGt(N, 0) THEN FDiv(rms, FSqrt(N)) ELSE 0
        sigma_err == IF FGt(N, 0) THEN FDiv(rms, FSqrt(FMul(2 * Unit, N))) ELSE 0
    IN [R |-> R, eR |-> res_and_err_from_sigma_mu(rms, sigma_err, mean, mu_err).eR]

(***************************************************************************)
(* The loop over the files, one file per step                              *)
(***************************************************************************)
NoLoc == [status |-> -1, mu_fit |-> PyNone, sig_fit |-> PyNone,
          mu_rms |-> PyNone, sig_rms |-> PyNone, mu |-> PyNone,
          sig |-> PyNone, R |-> PyNone, info |-> ""]

NoRet == [kind |-> "none", exc |-> "", voltages |-> <<>>, resolutions |-> <<>>,
          v_errors |-> <<>>, res_errors |-> <<>>]

\* lines 85-92
ListFiles ==
    /\ rpc = "list"
    /\ csv_files' = ListCsvFiles(listing)
    /\ IF csv_files' = <<>>
         THEN /\ rpc' = "raised"
              /\ res_ret' = [NoRet EXCEPT !.kind = "raise", !.exc = "RuntimeError"]
         ELSE /\ rpc' = "loop"
              /\ res_ret' = res_ret
    /\ file_i' = 1
    /\ UNCHANGED <<variant, listing, voltages, resolutions, v_errors,
                   res_errors, seen, loc>>
    /\ UNCHANGED <<daqVars, csvVars, voltVars, inlVars, ctrVars>>

\* `continue`
SkipFile(this_file, parsed, nvalid, mean, rms, n) ==
    /\ seen' = Append(seen, [file |-> this_file, parsed |-> parsed,
                             nvalid |-> nvalid, mean |-> mean, rms |-> rms,
                             n |-> n, point |-> FALSE])
    /\ UNCHANGED <<voltages, resolutions, v_errors, res_errors>>

\* lines 135-138 (202-205, 286-289)
AppendPoint(this_file, nvalid, mean, rms, n, v_val, R, eR) ==
    /\ voltages' = Append(voltages, v_val)
    /\ resolutions' = Append(resolutions, Times100(R))
    /\ v_errors' = Append(v_errors, 0)
    /\ res_errors' = Append(res_errors, Times100(eR))
    /\ seen' = Append(seen, [file |-> this_file, parsed |-> TRUE,
                             nvalid |-> nvalid, mean |-> mean, rms |-> rms,
                             n |-> n, point |-> TRUE])

\* line 121
BadMeanRms(mean, rms) == mean = 0 \/ IsNaN(mean) \/ IsNaN(rms)

\* lines 125-133
RmsResolution(mean, rms, mean_err, rms_err) ==
    LET res == FDiv(rms, mean)
        rel == IF mean # 0
                 THEN FSqrt(FAdd(FSq(FDiv(rms_err, rms)), FSq(FDiv(mean_err, mean))))
                 ELSE 0
    IN [R |-> res, eR |-> IF FGt(rms, 0) THEN FMul(FAbs(res), rel) ELSE 0]

\* compute_resolution_points, lines 94-142
ProcessFileRms ==
    /\ rpc = "loop" /\ variant = "rms" /\ file_i <= Len(csv_files)
    /\ \E rows \in ResCsvFiles, mean \in MeanVals, rms \in RmsVals, e \in StatErrVals :
         LET this_file == csv_files[file_i]
             v == parse_voltage(this_file)
             xy == read_binned_hist_csv(rows)
             h == make_th1_from_centers_counts(xy.x, xy.y)
         IN IF v.v_val = NoneVal
              THEN SkipFile(this_file, FALSE, PyNone, PyNone, PyNone, PyNone)
            ELSE IF Len(xy.x) < 2
              THEN SkipFile(this_file, TRUE, Len(xy.x), PyNone, PyNone, PyNone)
            ELSE IF ~h.built
              THEN SkipFile(this_file, TRUE, Len(xy.x), PyNone, PyNone, PyNone)
            ELSE IF BadMeanRms(mean, rms)
              THEN SkipFile(this_file, TRUE, Len(xy.x), mean, rms, PyNone)
            ELSE LET r == RmsResolution(mean, rms, e.mean_err, e.rms_err)
                 IN AppendPoint(this_file, Len(xy.x), mean, rms, PyNone,
                                v.v_val, r.R, r.eR)
    /\ file_i' = file_i + 1
    /\ UNCHANGED <<rpc, variant, listing, csv_files, loc, res_ret>>
    /\ UNCHANGED <<daqVars, csvVars, voltVars, inlVars, ctrVars>>

\* lines 170-200: the resolution of one area histogram
AreaResolution(st, rootfit, N) ==
    LET f == gauss_fit(rootfit)
    IN IF f.status = 0 /\ Truthy(f.mean) /\ f.mean # 0
         THEN LET r == res_and_err_from_sigma_mu(f.sigma, f.sigma_err, f.mean, f.mean_err)
              IN [R |-> r.R, eR |-> r.eR, mu |-> f.mean, sig |-> f.sigma,
                  info |-> "gaus(full)", fit |-> f]
         ELSE LET r == RmsFallback(st.mean, st.rms, N)
              IN [R |-> r.R, eR |-> r.eR, mu |-> st.mean, sig |-> st.rms,
                  info |-> "RMS/Mean(full) [fit failed]", fit |-> f]

\* lines 263-284: the resolution of one amplitude histogram
AmpResolution(w, rootfit) ==
    LET f == gauss_fit(rootfit)
    IN IF f.status = 0 /\ f.mean # PyNone /\ f.sigma # PyNone
         THEN LET r == res_and_err_from_sigma_mu(f.sigma, f.sigma_err, f.mean, f.mean_err)
              IN [R |-> r.R, eR |-> r.eR, mu |-> f.mean, sig |-> f.sigma,
                  info |-> "gaus(window)", fit |-> f]
         ELSE LET r == RmsFallback(w.mean, w.rms, w.n)
              IN [R |-> r.R, eR |-> r.eR, mu |-> w.mean, sig |-> w.rms,
                  info |-> "RMS/Mean(window) [fit failed]", fit |-> f]

LocOf(r, mu_rms, sig_rms) ==
    [status |-> r.fit.status, mu_fit |-> r.fit.mean, sig_fit |-> r.fit.sigma,
     mu_rms |-> mu_rms, sig_rms |-> sig_rms, mu |-> r.mu, sig |-> r.sig,
     R |-> r.R, info |-> r.info]

\* compute_resolution_points_area, lines 150-209
ProcessFileArea ==
    /\ rpc = "loop" /\ variant = "area" /\ file_i <= Len(csv_files)
    /\ \E rows \in ResCsvFiles, st \in FullStats, rootfit \in RootFits, N \in IntegralVals :
         LET this_file == csv_files[file_i]
             v == parse_voltage(this_file)
             xy == read_binned_hist_csv(rows)
             h == make_th1_from_centers_counts(xy.x, xy.y)
         IN IF v.v_val = NoneVal
              THEN SkipFile(this_file, FALSE, PyNone, PyNone, PyNone, PyNone) /\ loc' = loc
            ELSE IF Len(xy.x) < 2
              THEN SkipFile(this_file, TRUE, Len(xy.x), PyNone, PyNone, PyNone) /\ loc' = loc
            ELSE IF ~h.built
              THEN SkipFile(this_file, TRUE, Len(xy.x), PyNone, PyNone, PyNone) /\ loc' = loc
            ELSE LET r == AreaResolution(st, rootfit, N)
                 IN /\ AppendPoint(this_file, Len(xy.x), st.mean, st.rms, N,
                                   v.v_val, r.R, r.eR)
                    /\ loc' = LocOf(r, st.mean, st.rms)
    /\ file_i' = file_i + 1
    /\ UNCHANGED <<rpc, variant, listing, csv_files, res_ret>>
    /\ UNCHANGED <<daqVars, csvVars, voltVars, inlVars, ctrVars>>

\* compute_resolution_points_amp_gaus_window, lines 229-293
ProcessFileAmp ==
    /\ rpc = "loop" /\ variant = "amp" /\ file_i <= Len(csv_files)
    /\ \E rows \in ResCsvFiles, bins \in WindowBins, rootfit \in RootFits :
         LET this_file == csv_files[file_i]
             v == parse_voltage(this_file)
             xy == read_binned_hist_csv(rows)
             h == make_th1_from_centers_counts(xy.x, xy.y)
             w == weighted_mean_rms_in_bins(bins)
         IN IF v.v_val = NoneVal
              THEN SkipFile(this_file, FALSE, PyNone, PyNone, PyNone, PyNone) /\ loc' = loc
            ELSE IF Len(xy.x) < 2
              THEN SkipFile(this_file, TRUE, Len(xy.x), PyNone, PyNone, PyNone) /\ loc' = loc
            ELSE IF ~h.built
              THEN SkipFile(this_file, TRUE, Len(xy.x), PyNone, PyNone, PyNone) /\ loc' = loc
            ELSE IF FLe(w.n, 0) \/ w.mean = 0
              THEN SkipFile(this_file, TRUE, Len(xy.x), w.mean, w.rms, w.n) /\ loc' = loc
            ELSE LET r == AmpResolution(w, rootfit)
                 IN /\ AppendPoint(this_file, Len(xy.x), w.mean, w.rms, w.n,
                                   v.v_val, r.R, r.eR)
                    /\ loc' = LocOf(r, w.mean, w.rms)
    /\ file_i' = file_i + 1
    /\ UNCHANGED <<rpc, variant, listing, csv_files, res_ret>>
    /\ UNCHANGED <<daqVars, csvVars, voltVars, inlVars, ctrVars>>

(***************************************************************************)
(* lines 144-149 (211-214, 295-298): sort by voltage, raise or return      *)
(***************************************************************************)
\* a <= b on voltages
VLeq(a, b) == a.num * Pow10(b.scale) <= b.num * Pow10(a.scale)

\* zip(voltages, resolutions, v_errors, res_errors)
Zip4(a, b, c, d) == [i \in 1..Len(a) |-> <<a[i], b[i], c[i], d[i]>>]

\* t put into a sorted list behind every item whose key is not larger
RECURSIVE InsertByKey(_, _)
InsertByKey(items, t) ==
    IF items = <<>> THEN <<t>>
    ELSE IF VLeq(Head(items)[1], t[1])
      THEN <<Head(items)>> \o InsertByKey(Tail(items), t)
      ELSE <<t>> \o items

\* sorted(items, key=lambda t: t[0])
RECURSIVE SortedByKey(_)
SortedByKey(items) ==
    IF items = <<>> THEN <<>>
    ELSE InsertByKey(SortedByKey(SubSeq(items, 1, Len(items) - 1)), items[Len(items)])

\* map(list, zip(*items)), whatever items holds
ReturnOrRaise_alwaysReturn(items) ==
    [kind |-> "return", exc |-> "",
     voltages |-> [i \in 1..Len(items) |-> items[i][1]],
     resolutions |-> [i \in 1..Len(items) |-> items[i][2]],
     v_errors |-> [i \in 1..Len(items) |-> items[i][3]],
     res_errors |-> [i \in 1..Len(items) |-> items[i][4]]]

\* lines 146-149
ReturnOrRaise(items) ==
    IF items = <<>>
      THEN [NoRet EXCEPT !.kind = "raise", !.exc = "RuntimeError"]
      ELSE [kind |-> "return", exc |-> "",
            voltages |-> [i \in 1..Len(items) |-> items[i][1]],
            resolutions |-> [i \in 1..Len(items) |-> items[i][2]],
            v_errors |-> [i \in 1..Len(items) |-> items[i][3]],
            res_errors |-> [i \in 1..Len(items) |-> items[i][4]]]

FinishRes ==
    /\ rpc = "loop" /\ file_i > Len(csv_files)
    /\ LET items == SortedByKey(Zip4(voltages, resolutions, v_errors, res_errors))
       IN res_ret' = ReturnOrRaise(items)
    /\ rpc' = IF res_ret'.kind = "raise" THEN "raised" ELSE "returned"
    /\ UNCHANGED <<variant, listing, csv_files, file_i, voltages, resolutions,
                   v_errors, res_errors, seen, loc>>
    /\ UNCHANGED <<daqVars, csvVars, voltVars, inlVars, ctrVars>>

InitRes ==
    /\ rpc = "list"
    /\ variant \in {"rms", "area", "amp"}
    /\ listing \in Listings
    /\ csv_files = <<>>
    /\ file_i = 1
    /\ voltages = <<>> /\ resolutions = <<>> /\ v_errors = <<>>
    /\ res_errors = <<>>
    /\ seen = <<>>
    /\ loc = NoLoc
    /\ res_ret = NoRet
    /\ DaqIdle
    /\ CsvIdle
    /\ VoltIdle
    /\ InlIdle
    /\ CtrIdle

NextRes ==
    \/ ListFiles
    \/ ProcessFileRms
    \/ ProcessFileArea
    \/ ProcessFileAmp
    \/ FinishRes

SpecRes == InitRes /\ [][NextRes]_vars

(***************************************************************************)
(* Properties of the resolution functions                                  *)
(***************************************************************************)
\* the files of the loop that contributed a point, in loop order
Contributing == SelectSeq(seen, LAMBDA s : s.point)

Orderings(n) == {p \in [1..n -> 1..n] : \A i, j \in 1..n : p[i] = p[j] => i = j}

\* the name holds <digit>V<digit>
HasVoltage(f) ==
    \E k \in 2..(Len(f) - 1) : f[k] = "V" /\ IsDigit(f[k - 1]) /\ IsDigit(f[k + 1])

\* C11 (as claimed): the function returns four lists of equal length, sorted
\* by ascending voltage, whose entries i are the voltage, resolution and
\* errors computed from one and the same file; every voltage error is 0 and
\* every resolution error is a number >= 0.
C11_Claim ==
    rpc = "returned" =>
      LET n == Len(res_ret.voltages)
          from == Contributing
      IN /\ Len(res_ret.resolutions) = n
         /\ Len(res_ret.v_errors) = n
         /\ Len(res_ret.res_errors) = n
         /\ Len(from) = n
         /\ \A i \in 1..(n - 1) : VLeq(res_ret.voltages[i], res_ret.voltages[i + 1])
         /\ \E p \in Orderings(n) : \A i \in 1..n :
               /\ res_ret.voltages[i] = parse_voltage(from[p[i]].file).v_val
               /\ res_ret.voltages[i] = voltages[p[i]]
               /\ res_ret.resolutions[i] = resolutions[p[i]]
               /\ res_ret.v_errors[i] = v_errors[p[i]]
               /\ res_ret.res_errors[i] = res_errors[p[i]]
         /\ \A i \in 1..n :
               /\ res_ret.v_errors[i] = 0
               /\ ~IsNaN(res_ret.res_errors[i])
               /\ res_ret.res_errors[i] >= 0

\* the files of the directory the function is about
Matching == {f \in listing : Head(f) = "hist_area_" /\ f[Len(f)] = ".csv"}

\* compute_resolution_points is claimed to skip the file
SkipExpectedRms(s) ==
    \/ ~HasVoltage(s.file)
    \/ s.nvalid # PyNone /\ s.nvalid < 2
    \/ s.mean # PyNone /\ (s.mean = 0 \/ IsNaN(s.mean) \/ IsNaN(s.rms))

Skipped(s) == IF variant = "rms" THEN SkipExpectedRms(s) ELSE ~s.point

NotSkippedRms == SelectSeq(seen, LAMBDA s : ~SkipExpectedRms(s))

\* C12: the function raises RuntimeError when no file of the directory
\* matches the prefix and '.csv', and when every matching file is skipped
\* (voltage not parsable, fewer than 2 valid rows, histogram not built, mean
\* equal to 0, mean or RMS NaN); it never returns empty lists; a skipped
\* file contributes no point and every other file contributes one.
C12_Raises ==
    /\ (rpc # "list" /\ Matching = {}) =>
          rpc = "raised" /\ res_ret.exc = "RuntimeError" /\ seen = <<>>
    /\ (rpc \in {"returned", "raised"} /\ Matching # {}) =>
          /\ Len(seen) = Cardinality(Matching)
          /\ {seen[k].file : k \in DOMAIN seen} = Matching
          /\ (\A k \in DOMAIN seen : Skipped(seen[k])) =>
                rpc = "raised" /\ res_ret.exc = "RuntimeError"
          /\ (\E k \in DOMAIN seen : ~Skipped(seen[k])) => rpc = "returned"
    /\ rpc = "returned" =>
          /\ res_ret.kind = "return"
          /\ Len(res_ret.voltages) >= 1 /\ Len(res_ret.resolutions) >= 1
          /\ Len(res_ret.v_errors) >= 1 /\ Len(res_ret.res_errors) >= 1
    /\ variant = "rms" =>
          voltages = [k \in DOMAIN NotSkippedRms |->
                        parse_voltage(NotSkippedRms[k].file).v_val]
    /\ variant # "rms" =>
          /\ Len(voltages) = Len(Contributing)
          /\ \A k \in DOMAIN seen :
                (~HasVoltage(seen[k].file)
                   \/ (seen[k].nvalid # PyNone /\ seen[k].nvalid < 2))
                  => ~seen[k].point

C12_Witness ==
    /\ rpc = "raised" /\ variant = "rms"
    /\ Len(seen) = 2
    /\ seen[1].nvalid = 1
    /\ seen[2].nvalid = 2 /\ seen[2].mean = 0

\* C13 (as claimed): the reported mean and sigma are the fitted parameters
\* exactly when the fit returns status 0 and the RMS-based values whenever
\* the status is not 0; the resolution is sigma/mean, and 0 for a mean of 0.
C13_Claim ==
    (rpc = "loop" /\ loc # NoLoc) =>
      /\ loc.status = 0 => (loc.mu = loc.mu_fit /\ loc.sig = loc.sig_fit)
      /\ loc.status # 0 => (loc.mu = loc.mu_rms /\ loc.sig = loc.sig_rms)
      /\ loc.R = IF loc.mu = 0 THEN 0 ELSE FDiv(loc.sig, loc.mu)

(***************************************************************************)
(* The inline copies of the CSV reading and histogram building:            *)
(* Test_LED_Analysis/plot_hist_area.py, lines 42-87, and                   *)
(* Test_LED_Analysis/Res_amplitude/plot_all_amplitude_hists.py, lines      *)
(* 53-97, on one CSV file.  The file is also read by the helpers           *)
(* read_binned_hist_csv and make_th1_from_centers_counts.                  *)
(***************************************************************************)
InlineRowSet ==
    {<<>>, <<"4">>, <<"bin_center", "4">>, <<"4", "4">>, <<"-1", "4">>,
     <<"4", "-1">>, <<"nan", "4">>, <<"4", "4", "bin_center">>}

InlineCsvFiles == UNION {[1..k -> InlineRowSet] : k \in 0..MaxRows}

NoInl == [skipped |-> FALSE, x |-> <<>>, y |-> <<>>, hist |-> NoHist]

\* plot_hist_area.py, line 46, keeping the first row
AreaAfterHeader_keepFirst(rows) == rows

\* plot_hist_area.py, line 46: header = next(reader, None)
AreaAfterHeader(rows) == IF Len(rows) = 0 THEN rows ELSE SubSeq(rows, 2, Len(rows))

\* plot_hist_area.py, lines 48-56
AreaRowValid(row) ==
    IF Len(row) < 2 THEN FALSE
    ELSE IF FloatRaises(row[1]) \/ FloatRaises(row[2]) THEN FALSE
    ELSE ~(FloatIsNaN(row[1]) \/ FloatIsNaN(row[2]))

\* plot_hist_area.py, lines 42-58
AreaRead(rows) ==
    LET kept == SelectSeq(AreaAfterHeader(rows), AreaRowValid)
    IN [x |-> [i \in DOMAIN kept |-> FloatOf(kept[i][1])],
        y |-> [i \in DOMAIN kept |-> FloatOf(kept[i][2])]]

\* plot_hist_area.py, lines 67-71, in half units
AreaEdges2(x) ==
    LET n == Len(x)
        inner == [i \in 1..(n + 1) |-> IF i \in 2..n THEN x[i - 1] + x[i] ELSE 0]
    IN [inner EXCEPT ![1] = 2 * x[1] - (x[2] - x[1]),
                     ![n + 1] = 2 * x[n] + (x[n] - x[n - 1])]

\* plot_hist_area.py, lines 60-87
AreaHist(rows) ==
    LET r == AreaRead(rows)
    IN IF Len(r.x) < 2 THEN [NoInl EXCEPT !.skipped = TRUE, !.x = r.x, !.y = r.y]
       ELSE [skipped |-> FALSE, x |-> r.x, y |-> r.y,
             hist |-> [built |-> TRUE,
                       edges2 |-> AreaEdges2(r.x),
                       content |-> r.y,
                       error |-> [i \in DOMAIN r.y |-> BinError(r.y[i])]]]

InlineArea ==
    /\ ipc = "start" /\ script = "plot_hist_area"
    /\ inl' = AreaHist(csv_rows)
    /\ ipc' = "done"
    /\ UNCHANGED script
    /\ UNCHANGED <<daqVars, csvVars, voltVars, resVars, ctrVars>>

\* plot_all_amplitude_hists.py, lines 57-68: the rows appended to x and y
RECURSIVE AmpLoop(_, _, _)
AmpLoop(rows, x, y) ==
    IF rows = <<>> THEN [x |-> x, y |-> y]
    ELSE LET row == Head(rows)
         IN IF Len(row) = 0 \/ Len(row) < 2 THEN AmpLoop(Tail(rows), x, y)
            ELSE IF FloatRaises(row[1]) \/ FloatRaises(row[2])
              THEN AmpLoop(Tail(rows), x, y)
            ELSE IF FloatIsNaN(row[1]) \/ FloatIsNaN(row[2])
              THEN AmpLoop(Tail(rows), x, y)
            ELSE AmpLoop(Tail(rows), Append(x, FloatOf(row[1])),
                         Append(y, FloatOf(row[2])))

\* plot_all_amplitude_hists.py, lines 53-68
AmpRead(rows) == AmpLoop(IF rows = <<>> THEN <<>> ELSE Tail(rows), <<>>, <<>>)

\* plot_all_amplitude_hists.py, lines 77-81, in half units
RECURSIVE AmpInnerEdges2(_, _)
AmpInnerEdges2(x, i) ==
    IF i > Len(x) THEN <<>> ELSE <<x[i - 1] + x[i]>> \o AmpInnerEdges2(x, i + 1)

AmpEdges2(x) ==
    <<2 * x[1] - (x[2] - x[1])>> \o AmpInnerEdges2(x, 2)
       \o <<2 * x[Len(x)] + (x[Len(x)] - x[Len(x) - 1])>>

\* plot_all_amplitude_hists.py, lines 70-97
AmpHist(rows) ==
    LET r == AmpRead(rows)
    IN IF Len(r.x) < 2 THEN [NoInl EXCEPT !.skipped = TRUE, !.x = r.x, !.y = r.y]
       ELSE [skipped |-> FALSE, x |-> r.x, y |-> r.y,
             hist |-> [built |-> TRUE,
                       edges2 |-> AmpEdges2(r.x),
                       content |-> r.y,
                       error |-> [i \in DOMAIN r.y |->
                                    IF r.y[i] >= 0 THEN Sqrt(r.y[i]) ELSE 0]]]

InlineAmp ==
    /\ ipc = "start" /\ script = "plot_all_amplitude_hists"
    /\ inl' = AmpHist(csv_rows)
    /\ ipc' = "done"
    /\ UNCHANGED script
    /\ UNCHANGED <<daqVars, csvVars, voltVars, resVars, ctrVars>>

InitInline ==
    /\ ipc = "start"
    /\ script \in {"plot_hist_area", "plot_all_amplitude_hists"}
    /\ inl = NoInl
    /\ cpc = "start"
    /\ csv_rows \in InlineCsvFiles
    /\ csv_x = <<>> /\ csv_y = <<>>
    /\ hist = NoHist
    /\ DaqIdle
    /\ VoltIdle
    /\ ResIdle
    /\ CtrIdle

NextInline ==
    \/ ReadCsv
    \/ MakeTh1
    \/ InlineArea
    \/ InlineAmp

SpecInline == InitInline /\ [][NextInline]_vars

\* C14: for every CSV content, the inline reading and histogram building of
\* plot_hist_area.py and of plot_all_amplitude_hists.py give the centers,
\* counts, bin edges, bin contents and bin errors that read_binned_hist_csv
\* followed by make_th1_from_centers_counts give, and the script skips the
\* file exactly when fewer than 2 valid rows remain.
C14_CopiesAgree ==
    (ipc = "done" /\ cpc = "hist") =>
      /\ inl.x = csv_x
      /\ inl.y = csv_y
      /\ inl.skipped <=> Len(csv_x) < 2
      /\ inl.skipped <=> ~hist.built
      /\ inl.hist.built = hist.built
      /\ inl.hist.edges2 = hist.edges2
      /\ inl.hist.content = hist.content
      /\ inl.hist.error = hist.error

C14_Witness ==
    /\ ipc = "done" /\ cpc = "hist"
    /\ script = "plot_all_amplitude_hists"
    /\ inl.hist.built
    /\ Len(csv_rows) = 3 /\ Len(inl.x) = 2
    /\ \E i \in DOMAIN inl.y : inl.y[i] < 0

(***************************************************************************)
(* find_center.py.  Positions are in tenths of a millimetre.  The ROOT     *)
(* file of a run is missing, unreadable, without the tree, or holds a tree *)
(* of events; hit_max[ch] of an event is max, plus 1000 on its hot         *)
(* channel, and hit_pedestal[ch] is ped.                                   *)
(***************************************************************************)
MaxEvents == 3

run_to_pos_vertical ==
    4 :> (121 :> 362 @@ 122 :> 352 @@ 124 :> 342 @@ 125 :> 332 @@ 126 :> 372
            @@ 127 :> 382 @@ 128 :> 392 @@ 129 :> 402)

run_to_pos_horizontal ==
    4 :> (121 :> 472 @@ 130 :> 482 @@ 131 :> 502 @@ 132 :> 492 @@ 133 :> 512
            @@ 134 :> 462 @@ 135 :> 452 @@ 136 :> 442 @@ 137 :> 432)

\* crystal_map[n] is crystal_map_rows[n + 1]
crystal_map_rows ==
    << <<"210", 1, "c">>, <<"211", 0, "a">>, <<"209", 0, "c">>, <<"211", 1, "a">>,
       <<"209", 1, "a">>, <<"209", 0, "b">>, <<"208", 1, "d">>, <<"210", 1, "a">>,
       <<"211", 1, "d">>, <<"210", 0, "a">>, <<"209", 1, "d">>, <<"210", 0, "c">>,
       <<"210", 0, "d">>, <<"209", 1, "b">>, <<"209", 0, "d">>, <<"210", 0, "b">>,
       <<"208", 0, "c">>, <<"211", 0, "b">>, <<"208", 1, "c">>, <<"210", 1, "b">>,
       <<"209", 1, "c">>, <<"208", 1, "b">>, <<"208", 0, "a">>, <<"210", 1, "d">>,
       <<"209", 0, "a">> >>

crystal_map == [n \in 0..24 |-> crystal_map_rows[n + 1]]

fpga_index == [f \in {"208", "209", "210", "211"} |->
                 IF f = "208" THEN 0 ELSE IF f = "209" THEN 1
                 ELSE IF f = "210" THEN 2 ELSE 3]

port_maps ==
    [p \in {"a", "b", "c", "d"} |->
       IF p = "a" THEN <<2, 6, 11, 15, 0, 4, 9, 13, 1, 5, 10, 14, 3, 7, 12, 16>>
       ELSE IF p = "b"
         THEN <<20, 24, 29, 33, 18, 22, 27, 31, 19, 23, 28, 32, 21, 25, 30, 34>>
       ELSE IF p = "c"
         THEN <<67, 63, 59, 55, 69, 65, 61, 57, 70, 66, 60, 56, 68, 64, 58, 54>>
       ELSE <<50, 46, 40, 36, 52, 48, 42, 38, 51, 47, 43, 39, 49, 45, 41, 37>>]

crystal_channels(n) ==
    LET fpga == crystal_map[n][1]
        asic == crystal_map[n][2]
        port == crystal_map[n][3]
        base == 144 * fpga_index[fpga] + 72 * asic
    IN [i \in DOMAIN port_maps[port] |-> base + port_maps[port][i]]

crystal_number == 4

channels == crystal_channels(crystal_number)

\* sorted(d.keys()) of a dictionary with integer keys
RECURSIVE SortedKeys(_)
SortedKeys(S) ==
    IF S = {} THEN <<>>
    ELSE LET m == CHOOSE a \in S : \A b \in S : a <= b
         IN <<m>> \o SortedKeys(S \ {m})

EventKinds ==
    {[max |-> 250, ped |-> 50, hot |-> 218],
     [max |-> 250, ped |-> 50, hot |-> 0],
     [max |-> 50, ped |-> 250, hot |-> 0],
     [max |-> 1000, ped |-> 0, hot |-> 218]}

RootFiles ==
    {[kind |-> k, events |-> <<>>] : k \in {"missing", "zombie", "no_tree"}}
      \cup {[kind |-> "tree", events |-> ev] :
              ev \in UNION {[1..k -> EventKinds] : k \in 0..MaxEvents}}

hit_max(event, ch) == event.max + (IF ch = event.hot THEN 1000 ELSE 0)

hit_pedestal(event, ch) == event.ped

\* line 151
RECURSIVE ChannelSum(_, _, _)
ChannelSum(event, chs, i) ==
    IF i > Len(chs) THEN 0
    ELSE (hit_max(event, chs[i]) - hit_pedestal(event, chs[i]))
           + ChannelSum(event, chs, i + 1)

\* TH1F(1000, 0, 10000).Fill: bin 0 is the underflow, 1001 the overflow
FillBin(s) ==
    IF s < 0 THEN 0 ELSE IF s >= 10000 THEN 1001 ELSE (s \div 10) + 1

\* lines 141-152: the bins filled, in event order
Fills(events, chs) ==
    [i \in DOMAIN events |-> FillBin(ChannelSum(events[i], chs, 1))]

BinContent(fills, b) == Cardinality({i \in DOMAIN fills : fills[i] = b})

\* h.GetMaximum() over the bins 1..1000
GetMaximum(fills) ==
    LET used == {fills[i] : i \in DOMAIN fills} \cap (1..1000)
    IN IF used = {} THEN 0
       ELSE LET b == CHOOSE a \in used :
                       \A c \in used : BinContent(fills, c) <= BinContent(fills, a)
            IN BinContent(fills, b)

\* h.GetMaximumBin(): the first bin of 1..1000 with the maximum
GetMaximumBin(fills) ==
    LET used == {fills[i] : i \in DOMAIN fills} \cap (1..1000)
        top == {b \in used : BinContent(fills, b) = GetMaximum(fills)}
    IN IF used = {} THEN 1 ELSE CHOOSE a \in top : \A c \in top : a <= c

\* GetBinCenter, in units of ADC
GetBinCenter(b) == (b - 1) * 10 + 5

\* f"Run{run:03d}.root" as (digits of the run, suffix)
RunFileName(run) ==
    <<"Run", (run \div 100) % 10, (run \div 10) % 10, run % 10, ".root">>

PngName(prefix, run) ==
    <<prefix, "run", (run \div 100) % 10, (run \div 10) % 10, run % 10, ".png">>

\* mean, mean_err and sigma are not assigned anywhere in find_center.py
MeanIsDefined == FALSE

\* analyze_run, lines 126-184, on the file of the run
analyze_run(run, chs, prefix, file) ==
    IF file.kind = "missing" THEN [outcome |-> "None", path |-> RunFileName(run)]
    ELSE IF file.kind = "zombie" THEN [outcome |-> "None", path |-> RunFileName(run)]
    ELSE IF file.kind = "no_tree" THEN [outcome |-> "None", path |-> RunFileName(run)]
    ELSE LET fills == Fills(file.events, chs)
             peak_bin == GetMaximumBin(fills)
             peak_x == GetBinCenter(peak_bin)
         IN IF ~MeanIsDefined
              THEN [outcome |-> "NameError", path |-> RunFileName(run),
                    fills |-> fills,
                    cb |-> <<GetMaximum(fills), peak_x, 10, 300, 3>>]
              ELSE [outcome |-> "returned", path |-> RunFileName(run),
                    fills |-> fills,
                    cb |-> <<GetMaximum(fills), peak_x, 10, 300, 3>>,
                    png |-> PngName(prefix, run)]

\* one iteration of a scan loop, lines 244-266
ScanStep(keys, prefix, peak, next_pc) ==
    LET i == Len(SelectSeq(run_calls, LAMBDA c : c.scan = scan)) + 1
        run == keys[i]
        res == analyze_run(run, channels, prefix, root_file)
    IN /\ run_calls' = Append(run_calls, [scan |-> scan, run |-> run])
       /\ analyze_ret' = res
       /\ saved' = IF res.outcome = "returned" THEN Append(saved, res.png) ELSE saved
       /\ IF res.outcome = "NameError"
            THEN /\ fexc' = "NameError" /\ fpc' = "raised"
                 /\ UNCHANGED <<scan, peak_H, peak_V>>
            ELSE /\ fexc' = fexc
                 /\ IF scan = "H"
                      THEN /\ peak_H' = IF res.outcome = "None" THEN peak_H
                                        ELSE (run :> res) @@ peak_H
                           /\ UNCHANGED peak_V
                      ELSE /\ peak_V' = IF res.outcome = "None" THEN peak_V
                                        ELSE (run :> res) @@ peak_V
                           /\ UNCHANGED peak_H
                 /\ IF i < Len(keys)
                      THEN fpc' = fpc /\ scan' = scan
                      ELSE fpc' = next_pc /\ scan' = IF scan = "H" THEN "V" ELSE ""
       /\ UNCHANGED root_file

\* lines 244-254
ScanHorizontal ==
    /\ fpc = "scan" /\ scan = "H"
    /\ ScanStep(SortedKeys(DOMAIN run_to_pos_horizontal), "cr04_H_", peak_H, "scan")
    /\ UNCHANGED <<daqVars, csvVars, voltVars, resVars, inlVars>>

\* lines 256-266
ScanVertical ==
    /\ fpc = "scan" /\ scan = "V"
    /\ ScanStep(SortedKeys(DOMAIN run_to_pos_vertical), "cr04_V_", peak_V, "extract")
    /\ UNCHANGED <<daqVars, csvVars, voltVars, resVars, inlVars>>

\* the results of the Gaussian fit of the graph: (center, center_err), in
\* tenths of a millimetre
CenterFits == {<<477, 15>>, <<0, 0>>}

H_center_png == <<"cr04_H_center", ".png">>

\* extract_center, lines 192-224: the exception raised, or "" with the points
\* of the graph, the PNG saved and the pair returned
extract_center(run_to_pos, peak_by_run, out_png, fit) ==
    LET runs == SortedKeys({r \in DOMAIN run_to_pos : r \in DOMAIN peak_by_run})
        none == [exc |-> "", runs |-> runs, x |-> <<>>, y |-> <<>>, ey |-> <<>>,
                 png |-> <<>>, ret |-> <<>>]
    IN IF Len(runs) < 3 THEN [none EXCEPT !.exc = "RuntimeError"]
       ELSE IF \E i \in DOMAIN runs : run_to_pos[runs[i]] \notin Int
         THEN [none EXCEPT !.exc = "TypeError"]
       ELSE [exc |-> "", runs |-> runs,
             x |-> [i \in DOMAIN runs |-> run_to_pos[runs[i]]],
             y |-> [i \in DOMAIN runs |-> peak_by_run[runs[i]][1]],
             ey |-> [i \in DOMAIN runs |-> peak_by_run[runs[i]][2]],
             png |-> out_png,
             ret |-> fit]

\* lines 268-274: the first extract_center call of the script
ExtractCenterH ==
    /\ fpc = "extract"
    /\ \E fit \in CenterFits :
         LET r == extract_center(run_to_pos_horizontal, peak_H, H_center_png, fit)
         IN /\ fexc' = r.exc
            /\ fpc' = IF r.exc = "" THEN "extractV" ELSE "raised"
            /\ saved' = IF r.exc = "" THEN Append(saved, r.png) ELSE saved
    /\ UNCHANGED <<scan, root_file, run_calls, peak_H, peak_V, analyze_ret>>
    /\ UNCHANGED <<daqVars, csvVars, voltVars, resVars, inlVars>>

InitCenter ==
    /\ fpc = "scan"
    /\ scan = "H"
    /\ root_file \in RootFiles
    /\ run_calls = <<>>
    /\ peak_H = <<>> /\ peak_V = <<>>
    /\ saved = <<>>
    /\ fexc = ""
    /\ analyze_ret = <<>>
    /\ DaqIdle
    /\ CsvIdle
    /\ VoltIdle
    /\ ResIdle
    /\ InlIdle

NextCenter ==
    \/ ScanHorizontal
    \/ ScanVertical
    \/ ExtractCenterH

SpecCenter == InitCenter /\ [][NextCenter]_vars

RunsOfScan(s) ==
    IF s = "H" THEN {121} \cup (130..137) ELSE {121, 122} \cup (124..129)

CallsOf(s) == SelectSeq(run_calls, LAMBDA c : c.scan = s)

\* C15: every analyze_run call is for a run number of the scan's table, and
\* when both scan loops are over the horizontal scan has called analyze_run
\* once for each of runs 121, 130..137 and the vertical scan once for each of
\* runs 121, 122, 124..129.
C15_Claim ==
    /\ \A i \in DOMAIN run_calls : run_calls[i].run \in RunsOfScan(run_calls[i].scan)
    /\ fpc = "extract" =>
         \A s \in {"H", "V"} :
           /\ Len(CallsOf(s)) = Cardinality(RunsOfScan(s))
           /\ {CallsOf(s)[i].run : i \in DOMAIN CallsOf(s)} = RunsOfScan(s)

\* C16: when the ROOT file of the run holds the tree, analyze_run returns
\* the pair of the fit instead of raising, and the PNG of the run has been
\* saved.
C16_Claim ==
    (analyze_ret # <<>> /\ root_file.kind = "tree") =>
      /\ analyze_ret.outcome = "returned"
      /\ fexc = ""
      /\ saved # <<>>

IsPhaseEvent(e) == e.kind \in {"lr_on", "inj", "lr_off"}

PhaseEvents == SelectSeq(trace, IsPhaseEvent)

\* events of one phase iteration: an LR-on per ASIC, Inj_2V5, an LR-off per ASIC
PhaseBlock == 2 * total_asic + 1

\* C17: the LR-on, Inj_2V5 and LR-off events come in blocks of one phase:
\* an LR-on write to each ASIC 0..total_asic-1, then Inj_2V5 with the phase
\* of the block, then an LR-off write to each ASIC, each LR-off carrying the
\* phase of its block; after the scan every block is complete and the last
\* LR write to each ASIC is an LR-off.
C17_LrAroundInjection ==
    LET pe == PhaseEvents
    IN /\ \A i \in DOMAIN pe :
            LET j == (i - 1) % PhaseBlock
                b == ((i - 1) \div PhaseBlock) + 1
            IN /\ b <= Len(phase_settings)
               /\ IF j < total_asic
                     THEN pe[i].kind = "lr_on" /\ pe[i].asic = j
                   ELSE IF j = total_asic
                     THEN pe[i].kind = "inj" /\ pe[i].phase = phase_settings[b]
                   ELSE /\ pe[i].kind = "lr_off"
                        /\ pe[i].asic = j - total_asic - 1
                        /\ pe[i].phase = phase_settings[b] % 16
       /\ pc \in OutputStage =>
            /\ Len(pe) = PhaseBlock * Len(phase_settings)
            /\ \A a \in 0..(total_asic - 1) :
                  LET lr == SelectSeq(pe, LAMBDA e : e.ev = "i2c" /\ e.asic = a)
                  IN lr # <<>> /\ lr[Len(lr)].kind = "lr_off"

C17_Witness ==
    /\ pc = "output"
    /\ Len(PhaseEvents) = PhaseBlock * 13
    /\ PhaseEvents[PhaseBlock + 1].kind = "lr_on"
    /\ PhaseEvents[Len(PhaseEvents)].asic = total_asic - 1

====
